---- MODULE Spec2Model ----
(***************************************************************************)
(* Storage backend of mcp-redis: the SqliteStorage session store.         *)
(*                                                                         *)
(* The table has the columns (sessionId PRIMARY KEY, identity, data,      *)
(* expiresAt).  data is the JSON text of the SessionData object; it is    *)
(* modelled as the set of <<key, value>> members the text carries.  A     *)
(* JavaScript object is a function from its own keys to values, where a   *)
(* key may be present with the value undefined.  All scalar values are    *)
(* strings ("true"/"false" for the boolean field active).                 *)
(* Time is Date.now() in milliseconds.                                     *)
(*                                                                         *)
(* Every method is an operator of the rows it runs on (db) that yields    *)
(* what the method returns or throws and, for a write, the rows it        *)
(* leaves; the actions apply the methods to the table.                    *)
(*                                                                         *)
(* Beside the store: sanitizeServerLabel on strings as sequences of       *)
(* characters (SpecLabel); the aggregate view getMcpServerConfig          *)
(* (SpecConfig) and the aggregator's connect()/getClients()               *)
(* (SpecAggregator), both running on the store; the state machine of one  *)
(* Connection Client, which keeps its SessionRecord in the store          *)
(* (SpecClient); the Event Distribution Channel (SpecChannel); and the    *)
(* tool executor middleware of the AG-UI adapter (SpecMiddleware, and     *)
(* SpecMiddlewareOverlap with a second run() of the instance); the tool   *)
(* adapters (SpecAdapter); and updateSession calls that overlap with each *)
(* other and with removeSession (SpecOverlap).  Each specification runs   *)
(* one component and leaves the variables of the others at rest.          *)
(***************************************************************************)
EXTENDS Integers, FiniteSets, Sequences, TLC

VARIABLES
    initialized,    \* SqliteStorage.initialized
    table,          \* the rows of the table, keyed by the primary key sessionId
    now,            \* Date.now(), milliseconds
    name,           \* sanitizeServerLabel: the argument, a string as its characters
    label,          \* sanitizeServerLabel: the value returned
    labelPc,        \* sanitizeServerLabel: "call" before, "return" after
    callPc,         \* position of the aggregate call in progress
    loaded,         \* the session records the call got from getIdentitySessionsData
    tasks,          \* position of the task of each loaded session (parallel fan-out)
    mcpConfig,      \* getMcpServerConfig: the label -> config mapping being built
    initializeCalls,        \* number of initialize() calls per session
    getValidTokensCalls,    \* number of getValidTokens() calls per session
    clients,        \* the aggregator's Connection Clients: sessionId -> state
    state,          \* Connection Client: its ConnectionState
    attempts,       \* Connection Client: position of the connect attempt each caller started
    calls,          \* Connection Client: "pending" while a caller awaits its connect()
    sent,           \* Connection Client: requests sent to the remote endpoint
    lastError,      \* Connection Client: the error persisted on the record
    toolCall,       \* Connection Client: the callTool issued last
    expired,        \* Connection Client: the stored access token has expired
    refreshes,      \* Connection Client: refresh requests sent to the authorization server
    published,      \* Event Distribution Channel: the events published, in order
    subscription,   \* Event Distribution Channel: the identity each subscriber listens for
    pending,        \* Event Distribution Channel: events on their way to each subscriber
    delivered,      \* Event Distribution Channel: events each subscriber has received
    runStatus,      \* McpToolExecutorMiddleware: state of the output stream of the run
    toolCallArgsBuffer,     \* McpToolExecutorMiddleware.toolCallArgsBuffer
    toolCallNames,  \* McpToolExecutorMiddleware.toolCallNames
    received,       \* the events the wrapped agent has emitted in the run
    output,         \* the events the middleware has emitted in the run
    executing,      \* the executeTool promises of the run that are not settled
    connected,      \* tool adapters: isConnected() of each client
    serverIds,      \* tool adapters: getServerId() of each client
    adapterPc,      \* tool adapters: position of the adapter method in progress
    adapterCall,    \* tool adapters: the method called and options.prefix
    adapterQueue,   \* tool adapters: the clients the method has still to transform
    listToolsCalls, \* tool adapters: the listTools() calls the method has made
    adapterResult,  \* tool adapters: the actions or tools collected so far
    updateCalls,    \* overlapping calls: position and locals of each updateSession
    removeDone,     \* overlapping calls: removeSession has returned
    writes          \* overlapping calls: the updateSession calls in the order of their UPDATE

storageVars == <<initialized, table, now>>
labelVars == <<name, label, labelPc>>
fanoutVars == <<callPc, loaded, tasks>>
configVars == <<mcpConfig, initializeCalls, getValidTokensCalls>>
clientVars == <<state, attempts, calls, sent, lastError, toolCall, expired, refreshes>>

channelVars == <<published, subscription, pending, delivered>>
middlewareVars ==
    <<runStatus, toolCallArgsBuffer, toolCallNames, received, output, executing>>

adapterVars ==
    <<connected, serverIds, adapterPc, adapterCall, adapterQueue, listToolsCalls,
      adapterResult>>
overlapVars == <<updateCalls, removeDone, writes>>

vars ==
    <<storageVars, labelVars, fanoutVars, configVars, clients, clientVars,
      channelVars, middlewareVars, adapterVars, overlapVars>>

----------------------------------------------------------------------------
(* Bounds of the model. *)

MaxTtl == 1
MaxTicks == 2
MaxNamed == 1
MaxNameLen == 3
MaxCallers == 2
MaxSent == 2
MaxRefreshes == 1

----------------------------------------------------------------------------
(* Values. *)

Undefined == "undefined"
SqlNull == -1
MsPerSec == 1000

Identities == {"u1", "u2"}
SessionIds == {"s1", "s2"}
Booleans == {"true", "false"}
Tokens == {"tokA"}
NoTtl == -1
TtlArgs == {NoTtl} \cup (0..MaxTtl)

(* The <<identity, sessionId>> arguments of the calls: every pair of the
   known identities and ids, and the pairs with an empty string. *)
Keys == Identities \X SessionIds
EmptyKeys == { <<"", "s1">>, <<"u1", "">>, <<"", "">> }
KeyArgs == Keys \cup EmptyKeys

Fields == {"sessionId", "identity", "active", "tokens"}

(* The values an update gives to a key.  sessionId and identity are each
   overwritten with one value, which is foreign to the rows of s1 and of
   u1. *)
FieldValues(f) ==
    CASE f = "sessionId" -> {"s2"}
      [] f = "identity" -> {"u2"}
      [] f = "active" -> Booleans
      [] f = "tokens" -> Tokens \cup {Undefined}

(* The SessionData objects handed to createSession: sessionId, identity and
   active are required keys, tokens is optional (absent, or present and
   possibly undefined).  With an empty sessionId or identity: one object per
   pair. *)
SessionDatas ==
    UNION { { [sessionId |-> k[2], identity |-> k[1], active |-> a] : a \in Booleans }
            \cup { [sessionId |-> k[2], identity |-> k[1], active |-> a, tokens |-> t] :
                      a \in Booleans, t \in Tokens \cup {Undefined} } :
            k \in Keys }
    \cup { [sessionId |-> k[2], identity |-> k[1], active |-> "true"] : k \in EmptyKeys }

(* Partial<SessionData>: any subset of the keys, at most MaxNamed of them. *)
Partials ==
    UNION { { d \in [K -> UNION {FieldValues(f) : f \in K}] :
                \A f \in K : d[f] \in FieldValues(f) } :
            K \in { K \in SUBSET Fields : Cardinality(K) <= MaxNamed } }

(* obj.f: the value of a key, undefined when the object has no such key. *)
Get(obj, f) == IF f \in DOMAIN obj THEN obj[f] ELSE Undefined

(* { ...a, ...b } *)
Spread(a, b) ==
    [f \in (DOMAIN a) \cup (DOMAIN b) |-> IF f \in DOMAIN b THEN b[f] ELSE a[f]]

(* JSON.stringify(obj): the members of the text; a key whose value is
   undefined is left out. *)
JSONstringify(obj) == { <<f, obj[f]>> : f \in { g \in DOMAIN obj : obj[g] # Undefined } }

(* JSON.parse(text): the object with one key per member. *)
JSONparse(text) ==
    [f \in { m[1] : m \in text } |-> (CHOOSE m \in text : m[1] = f)[2]]

(* !x for a string *)
Falsy(x) == x = ""

(* Variant: only an omitted ttl gives no expiry (ttl !== undefined ? ...). *)
ExpiresAt_ZeroIsTtl(ttl) ==
    IF ttl = NoTtl THEN SqlNull ELSE now + ttl * MsPerSec

(* ttl ? Date.now() + ttl * 1000 : null *)
ExpiresAt(ttl) ==
    IF ttl = NoTtl \/ ttl = 0 THEN SqlNull ELSE now + ttl * MsPerSec

----------------------------------------------------------------------------
(* Reads.  Each returns a value: an object, a set, null, or the error that
   ensureInitialized throws. *)

NotInitialized == [error |-> "SqliteStorage not initialized"]
Null == [null |-> "null"]

(* Variant: the lookup forgets the identity (WHERE sessionId = ?). *)
HasRow_AnyIdentity(db, identity, sessionId) == sessionId \in DOMAIN db

(* SELECT ... WHERE sessionId = ? AND identity = ? *)
HasRow(db, identity, sessionId) ==
    sessionId \in DOMAIN db /\ db[sessionId].identity = identity

(* Variant: the listing forgets the identity (no WHERE clause). *)
RowsOf_AnyIdentity(db, identity) == DOMAIN db

(* SELECT ... WHERE identity = ? *)
RowsOf(db, identity) == { k \in DOMAIN db : db[k].identity = identity }

(* Variant: the row is parsed without the "if (!row) return null" check. *)
getSession_NoNullCheck(db, identity, sessionId) ==
    IF ~initialized THEN NotInitialized
    ELSE IF ~HasRow(db, identity, sessionId) THEN [error |-> "TypeError"]
    ELSE JSONparse(db[sessionId].data)

getSession(db, identity, sessionId) ==
    IF ~initialized THEN NotInitialized
    ELSE IF ~HasRow(db, identity, sessionId) THEN Null
    ELSE JSONparse(db[sessionId].data)

(* Variant: the listing leaves out the records with active = false. *)
getIdentitySessionsData_ActiveOnly(db, identity) ==
    IF ~initialized THEN NotInitialized
    ELSE { r \in { JSONparse(db[k].data) : k \in RowsOf(db, identity) } :
             Get(r, "active") # "false" }

(* The rows come back as a set: SQL fixes no order without ORDER BY. *)
getIdentitySessionsData(db, identity) ==
    IF ~initialized THEN NotInitialized
    ELSE { JSONparse(db[k].data) : k \in RowsOf(db, identity) }

getIdentityMcpSessions(db, identity) ==
    IF ~initialized THEN NotInitialized
    ELSE RowsOf(db, identity)

getAllSessionIds(db) ==
    IF ~initialized THEN NotInitialized ELSE DOMAIN db

----------------------------------------------------------------------------
(* SQL statements. *)

(* Variant: the bind parameters sessionId and identity are swapped. *)
Insert_Swapped(db, sessionId, identity, data, expiresAt) ==
    [k \in (DOMAIN db) \cup {identity} |->
        IF k = identity
        THEN [identity |-> sessionId, data |-> data, expiresAt |-> expiresAt]
        ELSE db[k]]

(* INSERT INTO table VALUES (sessionId, identity, data, expiresAt) *)
Insert(db, sessionId, identity, data, expiresAt) ==
    [k \in (DOMAIN db) \cup {sessionId} |->
        IF k = sessionId
        THEN [identity |-> identity, data |-> data, expiresAt |-> expiresAt]
        ELSE db[k]]

(* Variant: the statement inserts the row when it is not there
   (INSERT OR REPLACE). *)
Update_Upsert(db, data, expiresAt, sessionId, identity) ==
    [k \in DOMAIN db \cup {sessionId} |->
        IF k = sessionId /\ (k \notin DOMAIN db \/ db[k].identity = identity)
        THEN [identity |-> identity, data |-> data, expiresAt |-> expiresAt]
        ELSE db[k]]

(* UPDATE table SET data = ?, expiresAt = ? WHERE sessionId = ? AND identity = ? *)
Update(db, data, expiresAt, sessionId, identity) ==
    [k \in DOMAIN db |->
        IF k = sessionId /\ db[k].identity = identity
        THEN [db[k] EXCEPT !.data = data, !.expiresAt = expiresAt]
        ELSE db[k]]

(* Variant: the bind parameters sessionId and identity are swapped. *)
Delete_Swapped(db, sessionId, identity) ==
    [k \in { j \in DOMAIN db : ~(j = identity /\ db[j].identity = sessionId) } |-> db[k]]

(* DELETE FROM table WHERE sessionId = ? AND identity = ? *)
Delete(db, sessionId, identity) ==
    [k \in { j \in DOMAIN db : ~(j = sessionId /\ db[j].identity = identity) } |-> db[k]]

(* Variant: the comparison is inverted (expiresAt > ?). *)
DeleteExpired_Inverted(db, t) ==
    [k \in { j \in DOMAIN db : ~(db[j].expiresAt # SqlNull /\ db[j].expiresAt > t) } |-> db[k]]

(* DELETE FROM table WHERE expiresAt IS NOT NULL AND expiresAt < ? *)
DeleteExpired(db, t) ==
    [k \in { j \in DOMAIN db : ~(db[j].expiresAt # SqlNull /\ db[j].expiresAt < t) } |-> db[k]]

----------------------------------------------------------------------------
(* Writes.  Each yields [outcome, db]: "ok" or the error thrown, and the rows
   the call leaves. *)

Returns(db) == [outcome |-> "ok", db |-> db]
Throws(db, error) == [outcome |-> error, db |-> db]

(* Variant: INSERT OR REPLACE, no primary-key error. *)
createSession_Replace(db, session, ttl) ==
    IF ~initialized THEN Throws(db, "NotInitialized")
    ELSE IF Falsy(session.sessionId) \/ Falsy(session.identity)
    THEN Throws(db, "Required")
    ELSE Returns(Insert(db, session.sessionId, session.identity,
                        JSONstringify(session), ExpiresAt(ttl)))

createSession(db, session, ttl) ==
    IF ~initialized THEN Throws(db, "NotInitialized")
    ELSE IF Falsy(session.sessionId) \/ Falsy(session.identity)
    THEN Throws(db, "Required")
    ELSE IF session.sessionId \in DOMAIN db
    THEN Throws(db, "AlreadyExists")
    ELSE Returns(Insert(db, session.sessionId, session.identity,
                        JSONstringify(session), ExpiresAt(ttl)))

(* Variant: the new data replaces the record instead of being merged into it. *)
updatedSession_Replace(currentSession, data) == data

(* const updatedSession = { ...currentSession, ...data } *)
updatedSession(currentSession, data) == Spread(currentSession, data)

(* Variant: an update without a ttl keeps the expiry the row had. *)
updateSession_KeepExpiry(db, identity, sessionId, data, ttl) ==
    IF ~initialized THEN Throws(db, "NotInitialized")
    ELSE IF Falsy(sessionId) \/ Falsy(identity)
    THEN Throws(db, "Required")
    ELSE IF getSession(db, identity, sessionId) = Null
    THEN Throws(db, "NotFound")
    ELSE Returns(Update(db,
                        JSONstringify(updatedSession(getSession(db, identity, sessionId), data)),
                        IF ttl = NoTtl THEN db[sessionId].expiresAt ELSE ExpiresAt(ttl),
                        sessionId, identity))

updateSession(db, identity, sessionId, data, ttl) ==
    IF ~initialized THEN Throws(db, "NotInitialized")
    ELSE IF Falsy(sessionId) \/ Falsy(identity)
    THEN Throws(db, "Required")
    ELSE IF getSession(db, identity, sessionId) = Null
    THEN Throws(db, "NotFound")
    ELSE Returns(Update(db,
                        JSONstringify(updatedSession(getSession(db, identity, sessionId), data)),
                        ExpiresAt(ttl), sessionId, identity))

(* Variant: the record is marked inactive and stays in the table. *)
removeSession_MarkInactive(db, identity, sessionId) ==
    IF ~initialized THEN Throws(db, "NotInitialized")
    ELSE IF ~HasRow(db, identity, sessionId) THEN Returns(db)
    ELSE Returns(Update(db,
                        JSONstringify(Spread(JSONparse(db[sessionId].data),
                                             [active |-> "false"])),
                        db[sessionId].expiresAt, sessionId, identity))

removeSession(db, identity, sessionId) ==
    IF ~initialized THEN Throws(db, "NotInitialized")
    ELSE Returns(Delete(db, sessionId, identity))

clearAll(db) ==
    IF ~initialized THEN Throws(db, "NotInitialized")
    ELSE Returns(<< >>)

cleanupExpiredSessions(db) ==
    IF ~initialized THEN Throws(db, "NotInitialized")
    ELSE Returns(DeleteExpired(db, now))

----------------------------------------------------------------------------
(* The components at rest.  Each specification runs one component and
   leaves the others as they are here. *)

Callers == 1..MaxCallers
NoAttempt == "none"

StorageIdle ==
    /\ initialized = FALSE
    /\ table = << >>
    /\ now = 0

LabelIdle ==
    /\ name = << >>
    /\ label = << >>
    /\ labelPc = "idle"

FanoutIdle ==
    /\ callPc = "idle"
    /\ loaded = {}
    /\ tasks = << >>

ConfigIdle ==
    /\ mcpConfig = << >>
    /\ initializeCalls = [s \in SessionIds |-> 0]
    /\ getValidTokensCalls = [s \in SessionIds |-> 0]

AggregatorIdle == clients = << >>

Subscribers == {"a", "b"}

(* A subscriber that has no stream open. *)
NotSubscribed == [identity |-> "none", since |-> 0]

(* No subscriber and nothing published. *)
ChannelIdle ==
    /\ published = << >>
    /\ subscription = [sub \in Subscribers |-> NotSubscribed]
    /\ pending = [sub \in Subscribers |-> << >>]
    /\ delivered = [sub \in Subscribers |-> << >>]

AdapterClients == {"k1", "k2"}

(* An optional string: absent (undefined), or present with its characters. *)
Absent == [present |-> FALSE, value |-> << >>]
Present(chars) == [present |-> TRUE, value |-> chars]

NoAdapterCall == [method |-> "none", prefix |-> Absent]

(* No adapter method has been called; no client is connected. *)
AdapterIdle ==
    /\ connected = [c \in AdapterClients |-> FALSE]
    /\ serverIds = [c \in AdapterClients |-> Absent]
    /\ adapterPc = "idle"
    /\ adapterCall = NoAdapterCall
    /\ adapterQueue = << >>
    /\ listToolsCalls = << >>
    /\ adapterResult = << >>

Updaters == {"w1", "w2"}

NoUpdate == [pc |-> "idle", data |-> << >>, ttl |-> NoTtl, currentSession |-> Null]

(* No overlapping call is in progress. *)
OverlapIdle ==
    /\ updateCalls = [w \in Updaters |-> NoUpdate]
    /\ removeDone = FALSE
    /\ writes = << >>

(* The middleware as constructed: the maps are empty and run() has not been
   called. *)
MiddlewareIdle ==
    /\ runStatus = "idle"
    /\ toolCallArgsBuffer = << >>
    /\ toolCallNames = << >>
    /\ received = << >>
    /\ output = << >>
    /\ executing = << >>

(* A Connection Client as constructed: DISCONNECTED, nothing in flight. *)
ClientIdle ==
    /\ state = "DISCONNECTED"
    /\ attempts = [c \in Callers |-> NoAttempt]
    /\ calls = [c \in Callers |-> "idle"]
    /\ sent = 0
    /\ lastError = "none"
    /\ toolCall = "idle"
    /\ expired = FALSE
    /\ refreshes = 0

----------------------------------------------------------------------------
(* Actions: one per call on the storage object, and the passing of time. *)

(* A call that throws leaves the rows as they are (result.db = table). *)
Apply(result) ==
    /\ table' = result.db
    /\ UNCHANGED <<initialized, now>>
    /\ UNCHANGED <<labelVars, adapterVars, overlapVars, channelVars, middlewareVars, fanoutVars, configVars, clients, clientVars>>

DoInit ==
    /\ initialized' = TRUE
    /\ UNCHANGED <<table, now>>
    /\ UNCHANGED <<labelVars, adapterVars, overlapVars, channelVars, middlewareVars, fanoutVars, configVars, clients, clientVars>>

DoCreateSession(session, ttl) ==
    Apply(createSession(table, session, ttl))

DoUpdateSession(identity, sessionId, data, ttl) ==
    Apply(updateSession(table, identity, sessionId, data, ttl))

DoRemoveSession(identity, sessionId) ==
    Apply(removeSession(table, identity, sessionId))

DoClearAll == Apply(clearAll(table))

DoCleanupExpiredSessions ==
    Apply(cleanupExpiredSessions(table))

(* A second passes between two calls. *)
Tick ==
    /\ now < MaxTicks * MsPerSec
    /\ now' = now + MsPerSec
    /\ UNCHANGED <<initialized, table>>
    /\ UNCHANGED <<labelVars, adapterVars, overlapVars, channelVars, middlewareVars, fanoutVars, configVars, clients, clientVars>>

Init ==
    /\ initialized = FALSE
    /\ table = << >>
    /\ now = 0
    /\ LabelIdle /\ FanoutIdle /\ ConfigIdle /\ AggregatorIdle /\ ClientIdle /\ ChannelIdle /\ MiddlewareIdle /\ AdapterIdle /\ OverlapIdle

Next ==
    \/ DoInit
    \/ \E session \in SessionDatas, ttl \in TtlArgs : DoCreateSession(session, ttl)
    \/ \E k \in Keys, data \in Partials, ttl \in TtlArgs :
          DoUpdateSession(k[1], k[2], data, ttl)
    \/ \E k \in EmptyKeys : DoUpdateSession(k[1], k[2], << >>, NoTtl)
    \/ \E k \in KeyArgs : DoRemoveSession(k[1], k[2])
    \/ DoClearAll
    \/ DoCleanupExpiredSessions
    \/ Tick

Spec == Init /\ [][Next]_vars

----------------------------------------------------------------------------
(* sanitizeServerLabel.  A string is the sequence of its characters. *)

UpperCase ==
    << "A", "B", "C", "D", "E", "F", "G", "H", "I", "J", "K", "L", "M",
       "N", "O", "P", "Q", "R", "S", "T", "U", "V", "W", "X", "Y", "Z" >>
LowerCase ==
    << "a", "b", "c", "d", "e", "f", "g", "h", "i", "j", "k", "l", "m",
       "n", "o", "p", "q", "r", "s", "t", "u", "v", "w", "x", "y", "z" >>
Digits == {"0", "1", "2", "3", "4", "5", "6", "7", "8", "9"}

IsUpper(c) == \E i \in DOMAIN UpperCase : UpperCase[i] = c
IsLower(c) == \E i \in DOMAIN LowerCase : LowerCase[i] = c

(* [a-zA-Z] *)
IsLetter(c) == IsUpper(c) \/ IsLower(c)

(* Variant: the class is [a-zA-Z0-9], '-' and '_' are replaced as well. *)
Allowed_AlphaNumeric(c) == IsLetter(c) \/ c \in Digits

(* [a-zA-Z0-9-_]: the characters the first replace leaves alone. *)
Allowed(c) == IsLetter(c) \/ c \in Digits \/ c = "-" \/ c = "_"

(* .replace(/[^a-zA-Z0-9-_]/g, '_') *)
ReplaceDisallowed(s) ==
    [i \in 1..Len(s) |-> IF Allowed(s[i]) THEN s[i] ELSE "_"]

(* Variant: runs of underscores are left as they are. *)
CollapseUnderscores_None(s) == s

(* .replace(/_{2,}/g, '_'): of every run of underscores the first stays. *)
CollapseUnderscores(s) ==
    LET kept == { i \in 1..Len(s) : ~(s[i] = "_" /\ i > 1 /\ s[i - 1] = "_") }
        nth(j) == CHOOSE i \in kept : Cardinality({ k \in kept : k <= i }) = j
    IN  [j \in 1..Cardinality(kept) |-> s[nth(j)]]

(* .toLowerCase() *)
toLowerCase(s) ==
    [i \in 1..Len(s) |->
        IF IsUpper(s[i])
        THEN LowerCase[CHOOSE k \in DOMAIN UpperCase : UpperCase[k] = s[i]]
        ELSE s[i]]

(* Variant: the test for a leading letter always succeeds. *)
StartsWithLetter_Always(s) == TRUE

(* /^[a-zA-Z]/.test(sanitized) *)
StartsWithLetter(s) == Len(s) > 0 /\ IsLetter(s[1])

sanitizeServerLabel(str) ==
    LET sanitized == toLowerCase(CollapseUnderscores(ReplaceDisallowed(str)))
    IN  IF ~StartsWithLetter(sanitized)
        THEN <<"s", "_">> \o sanitized
        ELSE sanitized

(* The characters of the server names of the sessions. *)
Chars(str) ==
    CASE str = "My Server" -> <<"M", "y", " ", "S", "e", "r", "v", "e", "r">>
      [] str = "my-server" -> <<"m", "y", "-", "s", "e", "r", "v", "e", "r">>
      [] str = "my server" -> <<"m", "y", " ", "s", "e", "r", "v", "e", "r">>
      [] str = "Server One" -> <<"S", "e", "r", "v", "e", "r", " ", "O", "n", "e">>
      [] str = "Server Two" -> <<"S", "e", "r", "v", "e", "r", " ", "T", "w", "o">>

ServerNames == {"My Server", "my-server", "my server", "Server One", "Server Two"}

(* The arguments: every string of at most MaxNameLen characters over an
   alphabet with one character of each kind the function tells apart, and
   the server names. *)
Alphabet == {"a", "A", "1", "-", "_", " "}
Names ==
    UNION { [1..n -> Alphabet] : n \in 0..MaxNameLen }
    \cup { Chars(str) : str \in ServerNames }

DoSanitizeServerLabel ==
    /\ labelPc = "call"
    /\ label' = sanitizeServerLabel(name)
    /\ labelPc' = "return"
    /\ UNCHANGED <<name, adapterVars, overlapVars, channelVars, middlewareVars, storageVars, fanoutVars, configVars, clients, clientVars>>

InitLabel ==
    /\ name \in Names
    /\ label = << >>
    /\ labelPc = "call"
    /\ StorageIdle /\ FanoutIdle /\ ConfigIdle /\ AggregatorIdle /\ ClientIdle /\ ChannelIdle /\ MiddlewareIdle /\ AdapterIdle /\ OverlapIdle

NextLabel == DoSanitizeServerLabel

SpecLabel == InitLabel /\ [][NextLabel]_vars

----------------------------------------------------------------------------
(* getMcpServerConfig(identity): the aggregate view of the sessions of an
   identity.  It runs on the storage above; one task per loaded session,
   the tasks run in parallel. *)

ConfigIdentity == "u1"

ServerUrl(sessionId) ==
    CASE sessionId = "s1" -> "http://server1"
      [] sessionId = "s2" -> "http://server2"

TransportType(sessionId) ==
    CASE sessionId = "s1" -> "sse"
      [] sessionId = "s2" -> "streamable_http"

(* A session record with its connection configuration. *)
ConfigSession(sessionId, active, serverName) ==
    [sessionId |-> sessionId, identity |-> ConfigIdentity, active |-> active,
     serverName |-> serverName, serverUrl |-> ServerUrl(sessionId),
     transportType |-> TransportType(sessionId)]

(* The rows createSession, without a ttl, leaves for a set of records. *)
TableOf(sessions) ==
    [k \in { r.sessionId : r \in sessions } |->
        LET r == CHOOSE r \in sessions : r.sessionId = k
        IN  [identity |-> r.identity, data |-> JSONstringify(r), expiresAt |-> SqlNull]]

(* The stores the call can find: any of the sessions stored for the
   identity, active or not, under any of the server names. *)
SessionTables ==
    UNION { { TableOf({ ConfigSession(k, f[k][1], f[k][2]) : k \in K }) :
                f \in [K -> Booleans \X ServerNames] } :
            K \in SUBSET SessionIds }

SessionOf(sessionId) == CHOOSE r \in loaded : r.sessionId = sessionId

(* mcpConfig[label] = { transport, url } *)
Entry(session) == [transport |-> session.transportType, url |-> session.serverUrl]

Put(config, key, value) ==
    [k \in (DOMAIN config) \cup {key} |-> IF k = key THEN value ELSE config[k]]

(* Every task of the fan-out has come to its end. *)
AllDone(t) == \A s \in DOMAIN t : t[s] = "done"

ConfigLoad ==
    /\ callPc = "getMcpServerConfig"
    /\ loaded' = getIdentitySessionsData(table, ConfigIdentity)
    /\ tasks' = [s \in { r.sessionId : r \in loaded' } |-> "start"]
    /\ callPc' = "mapping"
    /\ UNCHANGED <<storageVars, labelVars, adapterVars, overlapVars, channelVars, middlewareVars, configVars, clients, clientVars>>

(* An inactive session is removed from the storage and adds nothing. *)
ConfigRemoveInactive(s) ==
    /\ callPc = "mapping" /\ s \in DOMAIN tasks /\ tasks[s] = "start"
    /\ SessionOf(s).active = "false"
    /\ table' = removeSession(table, ConfigIdentity, s).db
    /\ tasks' = [tasks EXCEPT ![s] = "done"]
    /\ UNCHANGED <<initialized, now, callPc, loaded>>
    /\ UNCHANGED <<labelVars, adapterVars, overlapVars, channelVars, middlewareVars, configVars, clients, clientVars>>

ConfigInitialize(s) ==
    /\ callPc = "mapping" /\ s \in DOMAIN tasks /\ tasks[s] = "start"
    /\ SessionOf(s).active = "true"
    /\ initializeCalls' = [initializeCalls EXCEPT ![s] = @ + 1]
    /\ tasks' = [tasks EXCEPT ![s] = "initialized"]
    /\ UNCHANGED <<mcpConfig, getValidTokensCalls, callPc, loaded>>
    /\ UNCHANGED <<storageVars, labelVars, adapterVars, overlapVars, channelVars, middlewareVars, clients, clientVars>>

ConfigGetValidTokens(s) ==
    /\ callPc = "mapping" /\ s \in DOMAIN tasks /\ tasks[s] = "initialized"
    /\ getValidTokensCalls' = [getValidTokensCalls EXCEPT ![s] = @ + 1]
    /\ tasks' = [tasks EXCEPT ![s] = "tokens"]
    /\ UNCHANGED <<mcpConfig, initializeCalls, callPc, loaded>>
    /\ UNCHANGED <<storageVars, labelVars, adapterVars, overlapVars, channelVars, middlewareVars, clients, clientVars>>

ConfigAddEntry(s) ==
    /\ callPc = "mapping" /\ s \in DOMAIN tasks /\ tasks[s] = "tokens"
    /\ mcpConfig' = Put(mcpConfig,
                        sanitizeServerLabel(Chars(SessionOf(s).serverName)),
                        Entry(SessionOf(s)))
    /\ tasks' = [tasks EXCEPT ![s] = "done"]
    /\ UNCHANGED <<initializeCalls, getValidTokensCalls, callPc, loaded>>
    /\ UNCHANGED <<storageVars, labelVars, adapterVars, overlapVars, channelVars, middlewareVars, clients, clientVars>>

ConfigReturn ==
    /\ callPc = "mapping"
    /\ AllDone(tasks)
    /\ callPc' = "config"
    /\ UNCHANGED <<loaded, tasks>>
    /\ UNCHANGED <<storageVars, labelVars, adapterVars, overlapVars, channelVars, middlewareVars, configVars, clients, clientVars>>

InitConfig ==
    /\ initialized = TRUE
    /\ table \in SessionTables
    /\ now = 0
    /\ callPc = "getMcpServerConfig"
    /\ loaded = {}
    /\ tasks = << >>
    /\ ConfigIdle /\ LabelIdle /\ AggregatorIdle /\ ClientIdle /\ ChannelIdle /\ MiddlewareIdle /\ AdapterIdle /\ OverlapIdle

NextConfig ==
    \/ ConfigLoad
    \/ \E s \in SessionIds : ConfigRemoveInactive(s)
    \/ \E s \in SessionIds : ConfigInitialize(s)
    \/ \E s \in SessionIds : ConfigGetValidTokens(s)
    \/ \E s \in SessionIds : ConfigAddEntry(s)
    \/ ConfigReturn

SpecConfig == InitConfig /\ [][NextConfig]_vars

----------------------------------------------------------------------------
(* Connection Client: the state machine of one session.  The operations
   (connect, finishAuth, callTool, disconnect) are issued from outside; the
   steps of a connect attempt (handshake, discovery) are taken by the client
   itself.  An attempt is named after the caller whose connect() started
   it and writes the state as it advances. *)

ConnectionStates ==
    {"DISCONNECTED", "CONNECTING", "AUTHENTICATING", "AUTHENTICATED",
     "DISCOVERING", "CONNECTED", "VALIDATING", "RECONNECTING", "FAILED"}

Codes == {"good-code", "bad-code"}

(* Variant: the client does not see the attempt in flight. *)
InFlight_Never(att) == FALSE

(* A connect attempt has started and has not come to CONNECTED or FAILED. *)
InFlight(att) == \E c \in DOMAIN att : att[c] # NoAttempt

(* connect() by caller c: coalesced into the attempt in flight; a no-op in
   CONNECTED and AUTHENTICATED; otherwise a new attempt, in CONNECTING. *)
connect(st, att, c) ==
    IF InFlight(att)
    THEN [outcome |-> "coalesced", state |-> st, attempts |-> att]
    ELSE IF st \in {"CONNECTED", "AUTHENTICATED"}
    THEN [outcome |-> "ok", state |-> st, attempts |-> att]
    ELSE [outcome |-> "started", state |-> "CONNECTING",
          attempts |-> [att EXCEPT ![c] = "CONNECTING"]]

(* Variant: a code that is refused leaves the client waiting for a code. *)
finishAuth_Retry(st, att, code) ==
    IF st # "AUTHENTICATING"
    THEN [outcome |-> "NotAuthenticating", state |-> st, attempts |-> att]
    ELSE IF code = "good-code"
    THEN [outcome |-> "ok", state |-> "AUTHENTICATED",
          attempts |-> [c \in DOMAIN att |->
                           IF att[c] = "AUTHENTICATING" THEN "AUTHENTICATED" ELSE att[c]]]
    ELSE [outcome |-> "InvalidGrant", state |-> st, attempts |-> att]

(* finishAuth(code): the exchange of the code succeeds and the attempt goes
   on from AUTHENTICATED, or fails with InvalidGrant and ends in FAILED. *)
finishAuth(st, att, code) ==
    IF st # "AUTHENTICATING"
    THEN [outcome |-> "NotAuthenticating", state |-> st, attempts |-> att]
    ELSE IF code = "good-code"
    THEN [outcome |-> "ok", state |-> "AUTHENTICATED",
          attempts |-> [c \in DOMAIN att |->
                           IF att[c] = "AUTHENTICATING" THEN "AUTHENTICATED" ELSE att[c]]]
    ELSE [outcome |-> "InvalidGrant", state |-> "FAILED",
          attempts |-> [c \in DOMAIN att |->
                           IF att[c] = "AUTHENTICATING" THEN NoAttempt ELSE att[c]]]

(* Variant: the call is forwarded whatever the state. *)
callTool_Unchecked(st, n) == [outcome |-> "result", state |-> st, sent |-> n + 1]

(* callTool(name, args): forwarded to the remote endpoint in CONNECTED. *)
callTool(st, n) ==
    IF st # "CONNECTED"
    THEN [outcome |-> "NotConnected", state |-> st, sent |-> n]
    ELSE [outcome |-> "result", state |-> st, sent |-> n + 1]

(* The SessionRecord of the session this client runs, as created on its
   first connect attempt. *)
ClientSession == [sessionId |-> "s1", identity |-> ConfigIdentity, active |-> "true"]

(* The access tokens the authorization server issues, in order: the first
   on the exchange of the code, the next ones on refresh. *)
TokenNames == <<"tokA", "tokB", "tokC", "tokD">>

(* Variant: a transport error is treated as unrecoverable. *)
transportError_Fails(st, att, cs, c) ==
    [outcome |-> "TransportError", state |-> "FAILED",
     attempts |-> [att EXCEPT ![c] = NoAttempt],
     calls |-> [k \in DOMAIN cs |-> IF cs[k] = "pending" THEN "TransportError" ELSE cs[k]]]

(* A network failure or timeout in the attempt of c: the attempt ends, the
   state stays where it is, and the callers awaiting the attempt get
   TransportError. *)
transportError(st, att, cs, c) ==
    [outcome |-> "TransportError", state |-> st,
     attempts |-> [att EXCEPT ![c] = NoAttempt],
     calls |-> [k \in DOMAIN cs |-> IF cs[k] = "pending" THEN "TransportError" ELSE cs[k]]]

(* disconnect(): the transport is torn down, which fails the tool call in
   flight; the SessionRecord is deleted; the state is DISCONNECTED. *)
disconnect(tc, db) ==
    [state |-> "DISCONNECTED",
     toolCall |-> IF tc = "inFlight" THEN "rejected" ELSE tc,
     db |-> removeSession(db, ClientSession.identity, ClientSession.sessionId).db]

(* The tokens on the SessionRecord of the client, undefined when there is
   no record or it holds none. *)
StoredTokens(db) ==
    IF getSession(db, ClientSession.identity, ClientSession.sessionId) = Null
    THEN Undefined
    ELSE Get(getSession(db, ClientSession.identity, ClientSession.sessionId), "tokens")

(* Variant: the refreshed tokens are returned but not kept: the record and
   the expiry the client knows stay as they were. *)
getValidTokens_NotKept(db, exp, n, refreshOk) ==
    IF StoredTokens(db) = Undefined
    THEN [outcome |-> "NoTokens", tokens |-> Undefined, db |-> db, expired |-> exp,
          refreshes |-> n]
    ELSE IF ~exp
    THEN [outcome |-> "ok", tokens |-> StoredTokens(db), db |-> db, expired |-> exp,
          refreshes |-> n]
    ELSE IF refreshOk
    THEN [outcome |-> "ok", tokens |-> TokenNames[n + 2], db |-> db, expired |-> exp,
          refreshes |-> n + 1]
    ELSE [outcome |-> "RefreshFailed", tokens |-> Undefined, db |-> db, expired |-> exp,
          refreshes |-> n + 1]

(* getValidTokens(): the stored tokens when the access token has not
   expired; otherwise one refresh request to the authorization server, whose
   tokens are persisted on the SessionRecord and returned, or which fails
   with RefreshFailed.  n counts the refresh requests sent. *)
getValidTokens(db, exp, n, refreshOk) ==
    IF StoredTokens(db) = Undefined
    THEN [outcome |-> "NoTokens", tokens |-> Undefined, db |-> db, expired |-> exp,
          refreshes |-> n]
    ELSE IF ~exp
    THEN [outcome |-> "ok", tokens |-> StoredTokens(db), db |-> db, expired |-> exp,
          refreshes |-> n]
    ELSE IF refreshOk
    THEN [outcome |-> "ok", tokens |-> TokenNames[n + 2],
          db |-> updateSession(db, ClientSession.identity, ClientSession.sessionId,
                               [tokens |-> TokenNames[n + 2]], MaxTtl).db,
          expired |-> FALSE, refreshes |-> n + 1]
    ELSE [outcome |-> "RefreshFailed", tokens |-> Undefined, db |-> db, expired |-> exp,
          refreshes |-> n + 1]

(* connect() by caller c.  The first attempt of a session creates its
   SessionRecord. *)
DoConnect(c) ==
    /\ calls[c] # "pending"
    /\ LET res == connect(state, attempts, c)
       IN  /\ state' = res.state
           /\ attempts' = res.attempts
           /\ calls' = [calls EXCEPT ![c] = IF res.outcome = "ok" THEN "idle" ELSE "pending"]
           /\ lastError' = IF res.outcome = "started" THEN "none" ELSE lastError
           /\ table' = IF /\ res.outcome = "started"
                          /\ getSession(table, ClientSession.identity,
                                        ClientSession.sessionId) = Null
                       THEN createSession(table, ClientSession, MaxTtl).db
                       ELSE table
    /\ UNCHANGED <<sent, toolCall, expired, refreshes, initialized, now>>
    /\ UNCHANGED <<labelVars, adapterVars, overlapVars, channelVars, middlewareVars, fanoutVars, configVars, clients>>

(* The connect() of a caller returns: with the AuthRequired signal in
   AUTHENTICATING, or when the attempt has come to its end. *)
ConnectReturns(c) ==
    /\ calls[c] = "pending"
    /\ state \notin {"CONNECTING", "AUTHENTICATED", "DISCOVERING"}
    /\ calls' = [calls EXCEPT ![c] = "idle"]
    /\ UNCHANGED <<state, attempts, sent, lastError, toolCall, expired, refreshes>>
    /\ UNCHANGED <<storageVars, labelVars, adapterVars, overlapVars, channelVars, middlewareVars, fanoutVars, configVars, clients>>

(* A step of the attempt of c takes it, and the state, to the next position;
   CONNECTED and FAILED end the attempt. *)
Advance(c, from, to, err) ==
    /\ attempts[c] = from
    /\ state' = to
    /\ attempts' = [attempts EXCEPT ![c] = IF to \in {"CONNECTED", "FAILED"}
                                            THEN NoAttempt ELSE to]
    /\ lastError' = err
    /\ UNCHANGED <<calls, sent, toolCall, expired, refreshes>>
    /\ UNCHANGED <<storageVars, labelVars, adapterVars, overlapVars, channelVars, middlewareVars, fanoutVars, configVars, clients>>

(* The handshake of the attempt of c meets a network failure or a timeout. *)
HandshakeTransportError(c) ==
    /\ attempts[c] = "CONNECTING"
    /\ LET res == transportError(state, attempts, calls, c)
       IN  /\ state' = res.state
           /\ attempts' = res.attempts
           /\ calls' = res.calls
           /\ lastError' = IF res.state = "FAILED" THEN res.outcome ELSE lastError
    /\ UNCHANGED <<sent, toolCall, expired, refreshes>>
    /\ UNCHANGED <<storageVars, labelVars, adapterVars, overlapVars, channelVars, middlewareVars, fanoutVars, configVars, clients>>

(* The transport handshake: the endpoint requires authorization, or a valid
   token is at hand, or an unrecoverable error, or a transport error. *)
Handshake(c) ==
    \/ Advance(c, "CONNECTING", "AUTHENTICATING", lastError)
    \/ Advance(c, "CONNECTING", "AUTHENTICATED", lastError)
    \/ Advance(c, "CONNECTING", "FAILED", "Unrecoverable")
    \/ HandshakeTransportError(c)

StartDiscovery(c) == Advance(c, "AUTHENTICATED", "DISCOVERING", lastError)

FinishDiscovery(c) ==
    \/ Advance(c, "DISCOVERING", "CONNECTED", lastError)
    \/ Advance(c, "DISCOVERING", "FAILED", "Unrecoverable")

(* finishAuth(code); on success the tokens of the exchange are persisted on
   the SessionRecord. *)
DoFinishAuth(code) ==
    /\ state = "AUTHENTICATING"
    /\ LET res == finishAuth(state, attempts, code)
       IN  /\ state' = res.state
           /\ attempts' = res.attempts
           /\ lastError' = IF res.outcome = "ok" THEN lastError ELSE res.outcome
           /\ table' = IF res.outcome = "ok"
                       THEN updateSession(table, ClientSession.identity,
                                          ClientSession.sessionId,
                                          [tokens |-> TokenNames[1]], MaxTtl).db
                       ELSE table
           /\ expired' = IF res.outcome = "ok" THEN FALSE ELSE expired
    /\ UNCHANGED <<calls, sent, toolCall, refreshes, initialized, now>>
    /\ UNCHANGED <<labelVars, adapterVars, overlapVars, channelVars, middlewareVars, fanoutVars, configVars, clients>>

(* callTool(name, args): refused at once, or forwarded and in flight. *)
DoCallTool ==
    /\ sent < MaxSent
    /\ toolCall # "inFlight"
    /\ LET res == callTool(state, sent)
       IN  /\ state' = res.state
           /\ sent' = res.sent
           /\ toolCall' = IF res.outcome = "result" THEN "inFlight" ELSE res.outcome
    /\ UNCHANGED <<attempts, calls, lastError, expired, refreshes>>
    /\ UNCHANGED <<storageVars, labelVars, adapterVars, overlapVars, channelVars, middlewareVars, fanoutVars, configVars, clients>>

(* The remote endpoint answers the tool call in flight. *)
ToolCallSettles ==
    /\ toolCall = "inFlight"
    /\ toolCall' = "resolved"
    /\ UNCHANGED <<state, attempts, calls, sent, lastError, expired, refreshes>>
    /\ UNCHANGED <<storageVars, labelVars, adapterVars, overlapVars, channelVars, middlewareVars, fanoutVars, configVars, clients>>

(* The expiry of the stored access token passes. *)
TokenExpires ==
    /\ StoredTokens(table) # Undefined
    /\ ~expired
    /\ expired' = TRUE
    /\ UNCHANGED <<state, attempts, calls, sent, lastError, toolCall, refreshes>>
    /\ UNCHANGED <<storageVars, labelVars, adapterVars, overlapVars, channelVars, middlewareVars, fanoutVars, configVars, clients>>

(* getValidTokens() on the connected session; the authorization server
   honours the refresh token or not.  RefreshFailed forces FAILED. *)
DoGetValidTokens(refreshOk) ==
    /\ state = "CONNECTED"
    /\ refreshes < MaxRefreshes
    /\ LET res == getValidTokens(table, expired, refreshes, refreshOk)
       IN  /\ table' = res.db
           /\ expired' = res.expired
           /\ refreshes' = res.refreshes
           /\ state' = IF res.outcome = "RefreshFailed" THEN "FAILED" ELSE state
           /\ lastError' = IF res.outcome = "RefreshFailed" THEN res.outcome ELSE lastError
    /\ UNCHANGED <<attempts, calls, sent, toolCall, initialized, now>>
    /\ UNCHANGED <<labelVars, adapterVars, overlapVars, channelVars, middlewareVars, fanoutVars, configVars, clients>>

(* disconnect(): from any state; the attempt in flight is given up. *)
DoDisconnect ==
    /\ LET res == disconnect(toolCall, table)
       IN  /\ state' = res.state
           /\ toolCall' = res.toolCall
           /\ table' = res.db
    /\ attempts' = [c \in Callers |-> NoAttempt]
    /\ lastError' = "none"
    /\ expired' = FALSE
    /\ UNCHANGED <<calls, sent, refreshes, initialized, now>>
    /\ UNCHANGED <<labelVars, adapterVars, overlapVars, channelVars, middlewareVars, fanoutVars, configVars, clients>>

(* The client as constructed, on an initialized storage with no record. *)
InitClient ==
    /\ ClientIdle
    /\ initialized = TRUE
    /\ table = << >>
    /\ now = 0
    /\ LabelIdle /\ FanoutIdle /\ ConfigIdle /\ AggregatorIdle /\ ChannelIdle /\ MiddlewareIdle /\ AdapterIdle /\ OverlapIdle

NextClient ==
    \/ \E c \in Callers : DoConnect(c)
    \/ \E c \in Callers : ConnectReturns(c)
    \/ \E c \in Callers : Handshake(c)
    \/ \E c \in Callers : StartDiscovery(c)
    \/ \E c \in Callers : FinishDiscovery(c)
    \/ \E code \in Codes : DoFinishAuth(code)
    \/ DoCallTool
    \/ ToolCallSettles
    \/ TokenExpires
    \/ \E refreshOk \in BOOLEAN : DoGetValidTokens(refreshOk)
    \/ DoDisconnect

SpecClient == InitClient /\ [][NextClient]_vars

----------------------------------------------------------------------------
(* Multi-Session Aggregator: connect() and getClients() for one identity.
   connect() loads the records of the identity from the storage above and
   runs one task per record, in parallel: an inactive record is removed, an
   active one gets a Connection Client whose connect() ends in CONNECTED or
   in FAILED. *)

(* Variant: the fan-out returns on the first failure (Promise.all). *)
AllSettled_FirstFailure(t) ==
    \/ \E s \in DOMAIN t : t[s] = "failed"
    \/ \A s \in DOMAIN t : t[s] \in {"removed", "connected", "failed"}

(* Every task has its outcome (Promise.allSettled). *)
AllSettled(t) == \A s \in DOMAIN t : t[s] \in {"removed", "connected", "failed"}

(* getClients(): the clients that are connected. *)
getClients(cl) == { s \in DOMAIN cl : cl[s] = "CONNECTED" }

AggregatorLoad ==
    /\ callPc = "connect"
    /\ loaded' = getIdentitySessionsData(table, ConfigIdentity)
    /\ tasks' = [s \in { r.sessionId : r \in loaded' } |-> "start"]
    /\ callPc' = "connecting"
    /\ UNCHANGED <<storageVars, labelVars, adapterVars, overlapVars, channelVars, middlewareVars, configVars, clients, clientVars>>

AggregatorRemoveInactive(s) ==
    /\ callPc = "connecting" /\ s \in DOMAIN tasks /\ tasks[s] = "start"
    /\ SessionOf(s).active = "false"
    /\ table' = removeSession(table, ConfigIdentity, s).db
    /\ tasks' = [tasks EXCEPT ![s] = "removed"]
    /\ UNCHANGED <<initialized, now, callPc, loaded>>
    /\ UNCHANGED <<labelVars, adapterVars, overlapVars, channelVars, middlewareVars, configVars, clients, clientVars>>

(* The client of an active session is constructed and its connect() called. *)
AggregatorConnect(s) ==
    /\ callPc = "connecting" /\ s \in DOMAIN tasks /\ tasks[s] = "start"
    /\ SessionOf(s).active = "true"
    /\ clients' = Put(clients, s, "CONNECTING")
    /\ tasks' = [tasks EXCEPT ![s] = "connecting"]
    /\ UNCHANGED <<callPc, loaded, storageVars, labelVars, adapterVars, overlapVars, channelVars, middlewareVars, configVars, clientVars>>

AggregatorConnected(s) ==
    /\ callPc = "connecting" /\ s \in DOMAIN tasks /\ tasks[s] = "connecting"
    /\ clients' = Put(clients, s, "CONNECTED")
    /\ tasks' = [tasks EXCEPT ![s] = "connected"]
    /\ UNCHANGED <<callPc, loaded, storageVars, labelVars, adapterVars, overlapVars, channelVars, middlewareVars, configVars, clientVars>>

(* The connect failure is recorded on the session. *)
AggregatorFailed(s) ==
    /\ callPc = "connecting" /\ s \in DOMAIN tasks /\ tasks[s] = "connecting"
    /\ clients' = Put(clients, s, "FAILED")
    /\ tasks' = [tasks EXCEPT ![s] = "failed"]
    /\ UNCHANGED <<callPc, loaded, storageVars, labelVars, adapterVars, overlapVars, channelVars, middlewareVars, configVars, clientVars>>

AggregatorReturn ==
    /\ callPc = "connecting"
    /\ AllSettled(tasks)
    /\ callPc' = "clients"
    /\ UNCHANGED <<loaded, tasks>>
    /\ UNCHANGED <<storageVars, labelVars, adapterVars, overlapVars, channelVars, middlewareVars, configVars, clients, clientVars>>

InitAggregator ==
    /\ initialized = TRUE
    /\ table \in SessionTables
    /\ now = 0
    /\ callPc = "connect"
    /\ loaded = {}
    /\ tasks = << >>
    /\ AggregatorIdle /\ ConfigIdle /\ LabelIdle /\ ClientIdle /\ ChannelIdle /\ MiddlewareIdle /\ AdapterIdle /\ OverlapIdle

NextAggregator ==
    \/ AggregatorLoad
    \/ \E s \in SessionIds : AggregatorRemoveInactive(s)
    \/ \E s \in SessionIds : AggregatorConnect(s)
    \/ \E s \in SessionIds : AggregatorConnected(s)
    \/ \E s \in SessionIds : AggregatorFailed(s)
    \/ AggregatorReturn

SpecAggregator == InitAggregator /\ [][NextAggregator]_vars

(***************************************************************************)
(* Event Distribution Channel.  Connection Clients publish the events of   *)
(* their session; the channel broadcasts each event to the subscribers     *)
(* that are listening for the identity owning the session.  Publishing     *)
(* hands the event to the channel and returns; the channel delivers it to  *)
(* each subscriber later, session by session in publication order.         *)
(* SpecChannel holds every other component idle.                           *)
(***************************************************************************)

MaxPublished == 3

ChannelSessions == SessionIds \cup {"s3"}

(* The identity a session belongs to: "s1" and "s2" are sessions of "u1",
   "s3" is a session of "u2". *)
Owner(sessionId) == IF sessionId \in SessionIds THEN "u1" ELSE "u2"

(* A subscriber sees the events of the sessions of the identity it
   subscribed for. *)
Entitled(sub, sessionId) == subscription[sub].identity = Owner(sessionId)

(* The next event of a session: events are numbered per session in the
   order they are appended. *)
NextEvent(sessionId) ==
    [sessionId |-> sessionId,
     seq |-> 1 + Cardinality({i \in 1..Len(published) :
                                  published[i].sessionId = sessionId})]

(* Variant: a late subscriber is sent the events already published for its
   identity. *)
Backlog_Replay(identity) ==
    SelectSeq(published, LAMBDA e : Owner(e.sessionId) = identity)

(* What a new subscriber is sent of the events published before it
   subscribed: nothing, there is no replay queue. *)
Backlog(identity) == << >>

(* Variant: the channel may deliver any undelivered event next. *)
Deliverable_Any(queue, i) == i \in 1..Len(queue)

(* The i-th undelivered event may be delivered next when no earlier
   undelivered event belongs to the same session. *)
Deliverable(queue, i) ==
    /\ i \in 1..Len(queue)
    /\ \A j \in 1..(i - 1) : queue[j].sessionId # queue[i].sessionId

Remove(queue, i) == [j \in 1..(Len(queue) - 1) |-> IF j < i THEN queue[j] ELSE queue[j + 1]]

(* A Connection Client publishes the next event of a session: fire and
   forget, whatever the subscribers are doing. *)
Publish(sessionId) ==
    /\ Len(published) < MaxPublished
    /\ published' = Append(published, NextEvent(sessionId))
    /\ pending' = [sub \in Subscribers |->
                     IF Entitled(sub, sessionId)
                       THEN Append(pending[sub], NextEvent(sessionId))
                       ELSE pending[sub]]
    /\ UNCHANGED <<subscription, delivered>>
    /\ UNCHANGED <<storageVars, labelVars, adapterVars, overlapVars, fanoutVars, configVars, clients, clientVars, middlewareVars>>

(* A browser opens its stream for an identity. *)
Subscribe(sub, identity) ==
    /\ subscription[sub] = NotSubscribed
    /\ subscription' = [subscription EXCEPT
                          ![sub] = [identity |-> identity, since |-> Len(published)]]
    /\ pending' = [pending EXCEPT ![sub] = Backlog(identity)]
    /\ delivered' = [delivered EXCEPT ![sub] = << >>]
    /\ UNCHANGED published
    /\ UNCHANGED <<storageVars, labelVars, adapterVars, overlapVars, fanoutVars, configVars, clients, clientVars, middlewareVars>>

(* The browser closes its stream; the stream is gone and what was on its
   way is dropped. *)
Unsubscribe(sub) ==
    /\ subscription[sub] # NotSubscribed
    /\ subscription' = [subscription EXCEPT ![sub] = NotSubscribed]
    /\ pending' = [pending EXCEPT ![sub] = << >>]
    /\ delivered' = [delivered EXCEPT ![sub] = << >>]
    /\ UNCHANGED published
    /\ UNCHANGED <<storageVars, labelVars, adapterVars, overlapVars, fanoutVars, configVars, clients, clientVars, middlewareVars>>

(* The channel writes one undelivered event to the stream of a subscriber. *)
Deliver(sub) ==
    /\ \E i \in 1..Len(pending[sub]) :
          /\ Deliverable(pending[sub], i)
          /\ delivered' = [delivered EXCEPT ![sub] = Append(@, pending[sub][i])]
          /\ pending' = [pending EXCEPT ![sub] = Remove(@, i)]
    /\ UNCHANGED <<published, subscription>>
    /\ UNCHANGED <<storageVars, labelVars, adapterVars, overlapVars, fanoutVars, configVars, clients, clientVars, middlewareVars>>

InitChannel ==
    /\ ChannelIdle
    /\ StorageIdle /\ LabelIdle /\ FanoutIdle /\ ConfigIdle /\ AggregatorIdle /\ ClientIdle /\ MiddlewareIdle /\ AdapterIdle /\ OverlapIdle

NextChannel ==
    \/ \E sessionId \in ChannelSessions : Publish(sessionId)
    \/ \E sub \in Subscribers, identity \in Identities : Subscribe(sub, identity)
    \/ \E sub \in Subscribers : Unsubscribe(sub)
    \/ \E sub \in Subscribers : Deliver(sub)

(* The channel keeps writing to an open stream: a delivery that stays
   possible is eventually made. *)
SpecChannel ==
    /\ InitChannel
    /\ [][NextChannel]_vars
    /\ \A sub \in Subscribers : WF_vars(Deliver(sub))

(***************************************************************************)
(* McpToolExecutorMiddleware (adapters/agui-middleware.ts).  run() pipes   *)
(* the events of the wrapped agent through mergeMap: an event is handled   *)
(* when it arrives, and what its handling returns synchronously is emitted *)
(* in the same step; the result of an intercepted tool call is emitted     *)
(* when the promise of executeTool settles, which is a later step.  The    *)
(* output completes when the agent has completed and no promise is         *)
(* pending, and fails when the agent fails or a promise rejects.  The      *)
(* middleware is constructed with its actions (actionsLoaded is true).     *)
(* Strings that the code takes apart are sequences of characters.          *)
(* SpecMiddleware holds every other component idle.                        *)
(***************************************************************************)

MaxEvents == 4

(* The characters of the tool names and of the prefix. *)
ToolChars(str) ==
    CASE str = "server-" -> <<"s", "e", "r", "v", "e", "r", "-">>
      [] str = "server-a" -> <<"s", "e", "r", "v", "e", "r", "-", "a">>
      [] str = "server-n" -> <<"s", "e", "r", "v", "e", "r", "-", "n">>
      [] str = "server-x" -> <<"s", "e", "r", "v", "e", "r", "-", "x">>
      [] str = "mcp_a" -> <<"m", "c", "p", "_", "a">>
      [] str = "" -> << >>

(* config.toolPrefix ?? 'server-' *)
toolPrefix == "server-"

(* config.actions: two actions with a handler, one of them under a name
   that does not start with the prefix, and one without a handler. *)
actions ==
    << [name |-> "server-a", handler |-> TRUE],
       [name |-> "server-n", handler |-> FALSE],
       [name |-> "mcp_a", handler |-> TRUE] >>

ToolCallIds == {"c1", "c2"}
ToolCallNames == {"server-a", "server-n", "server-x", "mcp_a", ""}
Deltas == { << >>, <<"{">>, <<"}">>, <<"1">> }

(* The events; a key an event does not carry is empty. *)
ToolCallStart(id, toolCallName) ==
    [type |-> "TOOL_CALL_START", toolCallId |-> id, toolCallName |-> toolCallName,
     delta |-> << >>, content |-> ""]
ToolCallArgs(id, delta) ==
    [type |-> "TOOL_CALL_ARGS", toolCallId |-> id, toolCallName |-> "",
     delta |-> delta, content |-> ""]
ToolCallEnd(id) ==
    [type |-> "TOOL_CALL_END", toolCallId |-> id, toolCallName |-> "",
     delta |-> << >>, content |-> ""]
ToolCallResult(id, content) ==
    [type |-> "TOOL_CALL_RESULT", toolCallId |-> id, toolCallName |-> "",
     delta |-> << >>, content |-> content]

(* What the wrapped agent may emit: any event of the call c1, and the start
   and the end of a second call c2. *)
UpstreamEvents ==
    { ToolCallStart("c1", n) : n \in ToolCallNames }
    \cup { ToolCallArgs("c1", dl) : dl \in Deltas }
    \cup { ToolCallEnd("c1"), ToolCallStart("c2", "server-a"), ToolCallEnd("c2") }

(* s.startsWith(prefix) *)
startsWith(s, prefix) ==
    Len(prefix) <= Len(s) /\ SubSeq(s, 1, Len(prefix)) = prefix

(* Variant: every tool name counts as a tool of the middleware. *)
isMcpTool_Any(toolName) == TRUE

isMcpTool(toolName) == startsWith(ToolChars(toolName), ToolChars(toolPrefix))

(* The JSON values of the argument texts. *)
EmptyObject == [kind |-> "object", value |-> 0]
Number(n) == [kind |-> "number", value |-> n]

RECURSIVE Decimal(_)
Decimal(digits) ==
    IF digits = << >> THEN 0
    ELSE 10 * Decimal(SubSeq(digits, 1, Len(digits) - 1))
         + (IF digits[Len(digits)] = "1" THEN 1 ELSE 0)

(* JSON.parse(text) over the characters "{", "}" and "1": the texts that
   parse are "{}" and the numbers 1, 11, ...; every other text throws. *)
JSONparseText(text) ==
    IF text = <<"{", "}">> THEN [ok |-> TRUE, value |-> EmptyObject]
    ELSE IF text # << >> /\ \A i \in 1..Len(text) : text[i] = "1"
    THEN [ok |-> TRUE, value |-> Number(Decimal(text))]
    ELSE [ok |-> FALSE, value |-> EmptyObject]

(* Variant: the delta replaces what was buffered. *)
Accumulate_Overwrite(buffer, id, delta) ==
    [k \in (DOMAIN buffer) \cup {id} |-> IF k = id THEN delta ELSE buffer[k]]

(* existing = buffer.get(id) || ''; buffer.set(id, existing + delta) *)
Accumulate(buffer, id, delta) ==
    [k \in (DOMAIN buffer) \cup {id} |->
        IF k = id
        THEN (IF id \in DOMAIN buffer THEN buffer[id] ELSE << >>) \o delta
        ELSE buffer[k]]

(* argsString = buffer.get(id) || '{}'; args = {}; try { args =
   JSON.parse(argsString) } catch { } *)
ParsedArgs(buffer, id) ==
    LET argsString == IF id \in DOMAIN buffer /\ buffer[id] # << >>
                      THEN buffer[id] ELSE <<"{", "}">>
    IN  IF JSONparseText(argsString).ok
        THEN JSONparseText(argsString).value
        ELSE EmptyObject

(* What a handler does with a call: it returns a string, throws an Error,
   or throws null. *)
Behaviours == {"returns", "throwsError", "throwsNull"}

(* this.actions.find(a => a.name === toolName) *)
Find(toolName) ==
    IF \E i \in 1..Len(actions) : actions[i].name = toolName
    THEN actions[CHOOSE i \in 1..Len(actions) :
                    /\ actions[i].name = toolName
                    /\ \A j \in 1..(i - 1) : actions[j].name # toolName]
    ELSE [name |-> "", handler |-> FALSE]

Resolved(content) == [outcome |-> "resolved", content |-> content]
Rejected == [outcome |-> "rejected", content |-> ""]

(* executeTool(toolName, args): the promise resolves with the result of the
   handler or with an error string.  In the catch block error.message is
   read off the thrown value: reading it off null throws a TypeError, with
   which the promise rejects. *)
executeTool(toolName, args, behaviour) ==
    IF Find(toolName).name # toolName \/ toolName = ""
    THEN Resolved("Error: Tool not found")
    ELSE IF ~Find(toolName).handler
    THEN Resolved("Error: Tool has no handler")
    ELSE IF behaviour = "returns" THEN Resolved("result")
    ELSE IF behaviour = "throwsError" THEN Resolved("Error executing tool")
    ELSE Rejected

(* Variant: the TOOL_CALL_END of an intercepted call is held back. *)
Emitted_WithoutEnd(event) ==
    IF event.type = "TOOL_CALL_END" THEN << >> ELSE <<event>>

(* What the function given to mergeMap emits at once: of(event), alone or
   as the head of the concat. *)
Emitted(event) == <<event>>

(* run(input, next): the maps are cleared and the agent is subscribed to.
   The tools added to input.tools are read by the agent only, which may
   emit any event.  The histories of the run are started afresh. *)
RunStarts ==
    /\ runStatus \in {"idle", "complete", "agentError", "rejected"}
    /\ runStatus' = "running"
    /\ toolCallArgsBuffer' = << >>
    /\ toolCallNames' = << >>
    /\ received' = << >>
    /\ output' = << >>
    /\ executing' = << >>
    /\ UNCHANGED <<storageVars, labelVars, adapterVars, overlapVars, fanoutVars, configVars, clients, clientVars, channelVars>>

(* The agent emits an event: the function given to mergeMap runs on it. *)
UpstreamEvent(event) ==
    /\ runStatus = "running"
    /\ Len(received) < MaxEvents
    /\ received' = Append(received, event)
    /\ toolCallNames' =
          IF /\ event.type = "TOOL_CALL_START"
             /\ event.toolCallId # "" /\ event.toolCallName # ""
          THEN [k \in (DOMAIN toolCallNames) \cup {event.toolCallId} |->
                  IF k = event.toolCallId THEN event.toolCallName ELSE toolCallNames[k]]
          ELSE toolCallNames
    /\ toolCallArgsBuffer' =
          IF /\ event.type = "TOOL_CALL_ARGS"
             /\ event.toolCallId # "" /\ event.delta # << >>
          THEN Accumulate(toolCallArgsBuffer, event.toolCallId, event.delta)
          ELSE toolCallArgsBuffer
    /\ executing' =
          IF /\ event.type = "TOOL_CALL_END"
             /\ event.toolCallId \in DOMAIN toolCallNames
             /\ isMcpTool(toolCallNames[event.toolCallId])
          THEN Append(executing,
                      [toolCallId |-> event.toolCallId,
                       toolName |-> toolCallNames[event.toolCallId],
                       args |-> ParsedArgs(toolCallArgsBuffer, event.toolCallId),
                       at |-> Len(received) + 1])
          ELSE executing
    /\ output' = output \o Emitted(event)
    /\ UNCHANGED runStatus
    /\ UNCHANGED <<storageVars, labelVars, adapterVars, overlapVars, fanoutVars, configVars, clients, clientVars, channelVars>>

Without(seq, i) == [j \in 1..(Len(seq) - 1) |-> IF j < i THEN seq[j] ELSE seq[j + 1]]

(* A promise of executeTool settles.  Resolved: the TOOL_CALL_RESULT is
   emitted, and the output completes if the agent has completed and this
   was the last promise.  Rejected: the output fails. *)
ExecuteToolSettles(i, behaviour) ==
    /\ runStatus \in {"running", "draining"}
    /\ i \in 1..Len(executing)
    /\ LET res == executeTool(executing[i].toolName, executing[i].args, behaviour)
       IN  IF res.outcome = "resolved"
           THEN /\ output' = Append(output, ToolCallResult(executing[i].toolCallId, res.content))
                /\ executing' = Without(executing, i)
                /\ runStatus' = IF runStatus = "draining" /\ Len(executing) = 1
                                THEN "complete" ELSE runStatus
           ELSE /\ output' = output
                /\ executing' = << >>
                /\ runStatus' = "rejected"
    /\ UNCHANGED <<toolCallArgsBuffer, toolCallNames, received>>
    /\ UNCHANGED <<storageVars, labelVars, adapterVars, overlapVars, fanoutVars, configVars, clients, clientVars, channelVars>>

(* The agent completes: the output completes with it unless a promise is
   pending. *)
UpstreamCompletes ==
    /\ runStatus = "running"
    /\ runStatus' = IF executing = << >> THEN "complete" ELSE "draining"
    /\ UNCHANGED <<toolCallArgsBuffer, toolCallNames, received, output, executing>>
    /\ UNCHANGED <<storageVars, labelVars, adapterVars, overlapVars, fanoutVars, configVars, clients, clientVars, channelVars>>

(* The agent fails: the output fails, the pending promises are dropped. *)
UpstreamErrors ==
    /\ runStatus = "running"
    /\ runStatus' = "agentError"
    /\ executing' = << >>
    /\ UNCHANGED <<toolCallArgsBuffer, toolCallNames, received, output>>
    /\ UNCHANGED <<storageVars, labelVars, adapterVars, overlapVars, fanoutVars, configVars, clients, clientVars, channelVars>>

InitMiddleware ==
    /\ MiddlewareIdle
    /\ StorageIdle /\ LabelIdle /\ FanoutIdle /\ ConfigIdle /\ AggregatorIdle /\ ClientIdle /\ ChannelIdle /\ AdapterIdle /\ OverlapIdle

NextMiddleware ==
    \/ RunStarts
    \/ \E event \in UpstreamEvents : UpstreamEvent(event)
    \/ \E i \in 1..MaxEvents, behaviour \in Behaviours : ExecuteToolSettles(i, behaviour)
    \/ UpstreamCompletes
    \/ UpstreamErrors

SpecMiddleware == InitMiddleware /\ [][NextMiddleware]_vars

(* A second run() on the same instance while the first run is in progress
   (the function returned by createMcpToolMiddleware closes over one
   instance, and an agent may be run again before a run has ended): the
   maps of the instance are cleared.  The second agent is one that emits no
   tool call event; the histories are those of the first run. *)
AnotherRunStarts ==
    /\ runStatus = "running"
    /\ toolCallArgsBuffer' = << >>
    /\ toolCallNames' = << >>
    /\ UNCHANGED <<runStatus, received, output, executing>>
    /\ UNCHANGED <<storageVars, labelVars, adapterVars, overlapVars, fanoutVars, configVars, clients, clientVars, channelVars>>

NextMiddlewareOverlap ==
    \/ NextMiddleware
    \/ AnotherRunStarts

SpecMiddlewareOverlap == InitMiddleware /\ [][NextMiddlewareOverlap]_vars

(***************************************************************************)
(* Tool adapters: CopilotKitAdapter (adapters/copilotkit-adapter.ts) and   *)
(* AguiAdapter (client/react/index.ts).  A method takes the clients of     *)
(* getClients(), or the one client it was given, and transforms them one   *)
(* after the other; each transformation tests isConnected(), calls         *)
(* listTools() and awaits it.  Clients connect and disconnect meanwhile.   *)
(* SpecAdapter holds every other component idle.                           *)
(***************************************************************************)

AdapterMethods == {"getActions", "getAgentTools", "getTools", "getToolDefinitions"}

(* What getServerId() returns: undefined, "a" or "a_b". *)
ServerIdChoices == {Absent, Present(<<"a">>), Present(<<"a", "_", "b">>)}

(* options.prefix: not given, or "p". *)
PrefixChoices == {Absent, Present(<<"p">>)}

(* result.tools of listTools(): the names of the tools of each client. *)
ToolsOf(client) ==
    IF client = "k1" THEN << <<"c">>, <<"b", "_", "c">> >> ELSE << <<"c">> >>

(* a ?? b *)
Coalesce(a, b) == IF a.present THEN a ELSE b

(* const prefix = this.options.prefix ?? client.getServerId() ?? 'mcp'
   (CopilotKitAdapter); this.options.prefix ?? `tool_${client.getServerId()
   ?? 'mcp'}` (AguiAdapter). *)
PrefixOf(method, optionsPrefix, serverId) ==
    IF method \in {"getActions", "getAgentTools"}
    THEN Coalesce(optionsPrefix, Coalesce(serverId, Present(<<"m", "c", "p">>))).value
    ELSE Coalesce(optionsPrefix,
                  Present(<<"t", "o", "o", "l", "_">>
                          \o Coalesce(serverId, Present(<<"m", "c", "p">>)).value)).value

(* `${prefix}_${tool.name}` *)
ActionName(prefix, tool) == prefix \o <<"_">> \o tool

(* Variant: no client is skipped. *)
Skipped_Never(isConnected) == FALSE

(* if (!client.isConnected()) return [] *)
Skipped(isConnected) == ~isConnected

(* The actions or tools made of the tools of a client; each keeps the client
   and the tool it was made of (the handler calls client.callTool(tool.name)). *)
Transformed(method, optionsPrefix, client) ==
    [i \in 1..Len(ToolsOf(client)) |->
        [name |-> ActionName(PrefixOf(method, optionsPrefix, serverIds[client]),
                             ToolsOf(client)[i]),
         client |-> client,
         serverId |-> serverIds[client],
         tool |-> ToolsOf(client)[i]]]

(* A method is called on an adapter of the multi-session client (the
   clients of getClients()) or of the single client k1. *)
AdapterCalled(method, optionsPrefix, multi) ==
    /\ adapterPc \in {"idle", "returned", "rejected"}
    /\ adapterPc' = "transform"
    /\ adapterCall' = [method |-> method, prefix |-> optionsPrefix]
    /\ adapterQueue' = IF multi THEN <<"k1", "k2">> ELSE <<"k1">>
    /\ listToolsCalls' = << >>
    /\ adapterResult' = << >>
    /\ UNCHANGED <<connected, serverIds>>
    /\ UNCHANGED <<storageVars, labelVars, fanoutVars, configVars, clients, clientVars, channelVars, middlewareVars, overlapVars>>

(* The transformation of the next client starts: a client that is not
   connected gives no tool; on a connected one listTools() is called. *)
TransformClient ==
    /\ adapterPc = "transform"
    /\ adapterQueue # << >>
    /\ IF Skipped(connected[Head(adapterQueue)])
       THEN /\ adapterQueue' = Tail(adapterQueue)
            /\ UNCHANGED <<adapterPc, listToolsCalls>>
       ELSE /\ adapterPc' = "listTools"
            /\ listToolsCalls' = Append(listToolsCalls,
                                        [client |-> Head(adapterQueue),
                                         isConnected |-> connected[Head(adapterQueue)]])
            /\ UNCHANGED adapterQueue
    /\ UNCHANGED <<connected, serverIds, adapterCall, adapterResult>>
    /\ UNCHANGED <<storageVars, labelVars, fanoutVars, configVars, clients, clientVars, channelVars, middlewareVars, overlapVars>>

(* listTools() resolves: the tools of the client are transformed and added. *)
ListToolsResolves ==
    /\ adapterPc = "listTools"
    /\ adapterResult' = adapterResult
                        \o Transformed(adapterCall.method, adapterCall.prefix, Head(adapterQueue))
    /\ adapterQueue' = Tail(adapterQueue)
    /\ adapterPc' = "transform"
    /\ UNCHANGED <<connected, serverIds, adapterCall, listToolsCalls>>
    /\ UNCHANGED <<storageVars, labelVars, fanoutVars, configVars, clients, clientVars, channelVars, middlewareVars, overlapVars>>

(* listTools() rejects: the method rejects. *)
ListToolsRejects ==
    /\ adapterPc = "listTools"
    /\ adapterPc' = "rejected"
    /\ adapterResult' = << >>
    /\ UNCHANGED <<connected, serverIds, adapterCall, adapterQueue, listToolsCalls>>
    /\ UNCHANGED <<storageVars, labelVars, fanoutVars, configVars, clients, clientVars, channelVars, middlewareVars, overlapVars>>

(* Every client has been transformed: the method returns what it collected. *)
AdapterReturns ==
    /\ adapterPc = "transform"
    /\ adapterQueue = << >>
    /\ adapterPc' = "returned"
    /\ UNCHANGED <<connected, serverIds, adapterCall, adapterQueue, listToolsCalls, adapterResult>>
    /\ UNCHANGED <<storageVars, labelVars, fanoutVars, configVars, clients, clientVars, channelVars, middlewareVars, overlapVars>>

(* A client connects or disconnects. *)
ConnectionChanges(client) ==
    /\ connected' = [connected EXCEPT ![client] = ~@]
    /\ UNCHANGED <<serverIds, adapterPc, adapterCall, adapterQueue, listToolsCalls, adapterResult>>
    /\ UNCHANGED <<storageVars, labelVars, fanoutVars, configVars, clients, clientVars, channelVars, middlewareVars, overlapVars>>

InitAdapter ==
    /\ connected \in [AdapterClients -> BOOLEAN]
    /\ serverIds \in [AdapterClients -> ServerIdChoices]
    /\ adapterPc = "idle"
    /\ adapterCall = NoAdapterCall
    /\ adapterQueue = << >>
    /\ listToolsCalls = << >>
    /\ adapterResult = << >>
    /\ StorageIdle /\ LabelIdle /\ FanoutIdle /\ ConfigIdle /\ AggregatorIdle /\ ClientIdle /\ ChannelIdle /\ MiddlewareIdle /\ OverlapIdle

NextAdapter ==
    \/ \E method \in AdapterMethods, optionsPrefix \in PrefixChoices, multi \in BOOLEAN :
          AdapterCalled(method, optionsPrefix, multi)
    \/ TransformClient
    \/ ListToolsResolves
    \/ ListToolsRejects
    \/ AdapterReturns
    \/ \E client \in AdapterClients : ConnectionChanges(client)

SpecAdapter == InitAdapter /\ [][NextAdapter]_vars

----------------------------------------------------------------------------
(* Overlapping calls on one record.  updateSession is an async method: the
   SELECT of the awaited getSession runs when the method is called, and the
   merge and the UPDATE run when the await resumes, after whatever other
   calls were made in between.  removeSession runs its DELETE when it is
   called. *)

(* The record that the overlapping calls address. *)
OverlapIdentity == "u1"
OverlapSessionId == "s1"

(* updateSession up to its await: the outcome and the record read. *)
updateSessionReads(db, identity, sessionId) ==
    IF ~initialized THEN [outcome |-> "NotInitialized", currentSession |-> Null]
    ELSE IF Falsy(sessionId) \/ Falsy(identity)
    THEN [outcome |-> "Required", currentSession |-> Null]
    ELSE IF getSession(db, identity, sessionId) = Null
    THEN [outcome |-> "NotFound", currentSession |-> Null]
    ELSE [outcome |-> "read", currentSession |-> getSession(db, identity, sessionId)]

(* Variant: the row is read again when the await resumes. *)
updateSessionWrites_Rereads(db, identity, sessionId, currentSession, data, ttl) ==
    Returns(Update(db,
                   JSONstringify(updatedSession(
                       IF HasRow(db, identity, sessionId)
                       THEN JSONparse(db[sessionId].data) ELSE currentSession, data)),
                   ExpiresAt(ttl), sessionId, identity))

(* updateSession after its await: the merge with the record read earlier and
   the UPDATE. *)
updateSessionWrites(db, identity, sessionId, currentSession, data, ttl) ==
    Returns(Update(db, JSONstringify(updatedSession(currentSession, data)),
                   ExpiresAt(ttl), sessionId, identity))

(* updateSession(identity, sessionId, data, ttl) is called. *)
UpdateCalled(w, data, ttl) ==
    /\ updateCalls[w].pc = "idle"
    /\ LET res == updateSessionReads(table, OverlapIdentity, OverlapSessionId)
       IN  updateCalls' = [updateCalls EXCEPT ![w] =
               [pc |-> res.outcome, data |-> data, ttl |-> ttl,
                currentSession |-> res.currentSession]]
    /\ UNCHANGED <<storageVars, removeDone, writes>>
    /\ UNCHANGED <<labelVars, adapterVars, channelVars, middlewareVars, fanoutVars, configVars, clients, clientVars>>

(* The await of a call resumes. *)
UpdateResumes(w) ==
    /\ updateCalls[w].pc = "read"
    /\ table' = updateSessionWrites(table, OverlapIdentity, OverlapSessionId,
                                    updateCalls[w].currentSession,
                                    updateCalls[w].data, updateCalls[w].ttl).db
    /\ updateCalls' = [updateCalls EXCEPT ![w].pc = "done"]
    /\ writes' = Append(writes, w)
    /\ UNCHANGED <<initialized, now, removeDone>>
    /\ UNCHANGED <<labelVars, adapterVars, channelVars, middlewareVars, fanoutVars, configVars, clients, clientVars>>

(* removeSession(identity, sessionId) is called. *)
RemoveCalled ==
    /\ ~removeDone
    /\ table' = removeSession(table, OverlapIdentity, OverlapSessionId).db
    /\ removeDone' = TRUE
    /\ writes' = Append(writes, "remove")
    /\ UNCHANGED <<initialized, now, updateCalls>>
    /\ UNCHANGED <<labelVars, adapterVars, channelVars, middlewareVars, fanoutVars, configVars, clients, clientVars>>

(* An initialized store that holds the record, created with or without a
   TTL. *)
InitOverlap ==
    /\ initialized = TRUE
    /\ now = 0
    /\ table \in { createSession(<< >>, session, ttl).db :
                     session \in { d \in SessionDatas :
                                      /\ d.sessionId = OverlapSessionId
                                      /\ d.identity = OverlapIdentity },
                     ttl \in TtlArgs }
    /\ LabelIdle /\ FanoutIdle /\ ConfigIdle /\ AggregatorIdle /\ ClientIdle
    /\ ChannelIdle /\ MiddlewareIdle /\ AdapterIdle
    /\ updateCalls = [w \in Updaters |-> NoUpdate]
    /\ removeDone = FALSE
    /\ writes = << >>

NextOverlap ==
    \/ \E w \in Updaters, data \in Partials, ttl \in TtlArgs : UpdateCalled(w, data, ttl)
    \/ \E w \in Updaters : UpdateResumes(w)
    \/ RemoveCalled

SpecOverlap == InitOverlap /\ [][NextOverlap]_vars

----------------------------------------------------------------------------
(* Properties.  A property of a call is stated of every reachable state of
   the store and every argument of the call: what the call returns and the
   rows it leaves when it is made in that state. *)

(* Equal field for field. *)
FieldEq(a, b) == \A f \in Fields : Get(a, f) = Get(b, f)

IsObject(v) == v # Null /\ v # NotInitialized

(* The store holds a row for exactly this pair. *)
Stored(db, identity, sessionId) ==
    sessionId \in DOMAIN db /\ db[sessionId].identity = identity

(* The TTL of row k was set and that many seconds have elapsed. *)
Elapsed(db, k) == db[k].expiresAt # SqlNull /\ db[k].expiresAt <= now

(* More than the TTL of row k has elapsed. *)
ElapsedStrictly(db, k) == db[k].expiresAt # SqlNull /\ db[k].expiresAt < now

(* C1: on an initialized store, for every record r with non-empty sessionId
   and identity whose sessionId is not stored, createSession(r), with or
   without a ttl, succeeds and getSession(r.identity, r.sessionId) made right
   after it returns a record equal to r field for field. *)
C1_RoundTrip ==
    initialized =>
        \A r \in SessionDatas, ttl \in TtlArgs :
            (r.sessionId # "" /\ r.identity # "" /\ r.sessionId \notin DOMAIN table) =>
                LET res == createSession(table, r, ttl)
                    got == getSession(res.db, r.identity, r.sessionId)
                IN  res.outcome = "ok" /\ IsObject(got) /\ FieldEq(got, r)

(* A createSession with a ttl has stored a record that reads back without
   tokens, and the other id is free: a record that carries tokens: undefined
   is created under it and is read back. *)
C1_Witness ==
    /\ initialized
    /\ \E k \in DOMAIN table :
          /\ table[k].expiresAt # SqlNull
          /\ IsObject(getSession(table, table[k].identity, k))
          /\ Get(getSession(table, table[k].identity, k), "tokens") = Undefined
    /\ \E r \in SessionDatas :
          /\ r.sessionId # "" /\ r.identity # "" /\ r.sessionId \notin DOMAIN table
          /\ "tokens" \in DOMAIN r /\ r["tokens"] = Undefined
          /\ createSession(table, r, 1).outcome = "ok"
          /\ IsObject(getSession(createSession(table, r, 1).db, r.identity, r.sessionId))

(* C2: no read (getSession, getIdentitySessionsData, getIdentityMcpSessions)
   returns a record whose TTL has elapsed, whether or not
   cleanupExpiredSessions has been called. *)
C2_ReadsNeverReturnExpired ==
    initialized =>
        \A k \in DOMAIN table :
            Elapsed(table, k) =>
                /\ getSession(table, table[k].identity, k) = Null
                /\ k \notin getIdentityMcpSessions(table, table[k].identity)
                /\ JSONparse(table[k].data) \notin getIdentitySessionsData(table, table[k].identity)

C4_DuplicateRejected ==
    initialized =>
        \A r \in SessionDatas, ttl \in TtlArgs :
            (r.identity # "" /\ r.sessionId \in DOMAIN table) =>
                LET res == createSession(table, r, ttl)
                IN  res.outcome = "AlreadyExists" /\ res.db = table

(* The store holds an id under each identity, and a createSession of a
   stored id under the other identity fails as a duplicate. *)
C4_Witness ==
    /\ initialized
    /\ \E k, j \in DOMAIN table : table[k].identity # table[j].identity
    /\ \E r \in SessionDatas :
          /\ r.sessionId \in DOMAIN table
          /\ r.identity # ""
          /\ r.identity # table[r.sessionId].identity
          /\ createSession(table, r, NoTtl).outcome = "AlreadyExists"

(* C5: updateSession(identity, sessionId, data), both non-empty, fails with
   the not-found error whenever no row exists for exactly that pair, and the
   failing call creates and changes nothing. *)
C5_UpdateNotFound ==
    initialized =>
        \A k \in KeyArgs, data \in Partials, ttl \in TtlArgs :
            ~Stored(table, k[1], k[2]) =>
                LET res == updateSession(table, k[1], k[2], data, ttl)
                IN  /\ res.outcome # "ok"
                    /\ (k \in Keys => res.outcome = "NotFound")
                    /\ res.db = table

(* An updateSession fails with not-found while the id it names is stored
   under the other identity. *)
C5_Witness ==
    /\ initialized
    /\ \E k \in Keys :
          /\ k[2] \in DOMAIN table
          /\ table[k[2]].identity # k[1]
          /\ updateSession(table, k[1], k[2], << >>, NoTtl).outcome = "NotFound"

(* C6: a successful updateSession is a shallow merge: getSession afterwards
   returns, for every key the data names, the new value, and for every other
   key the value it had before; the set of stored ids and every other row are
   unchanged. *)
C6_UpdateMerges ==
    initialized =>
        \A k \in Keys, data \in Partials, ttl \in TtlArgs :
            Stored(table, k[1], k[2]) =>
                LET before == getSession(table, k[1], k[2])
                    res == updateSession(table, k[1], k[2], data, ttl)
                    after == getSession(res.db, k[1], k[2])
                IN  /\ res.outcome = "ok"
                    /\ IsObject(after)
                    /\ \A f \in Fields :
                          Get(after, f) = IF f \in DOMAIN data THEN data[f] ELSE Get(before, f)
                    /\ DOMAIN res.db = DOMAIN table
                    /\ \A j \in DOMAIN table : j # k[2] => res.db[j] = table[j]

(* Two records are stored; one carries tokens and an identity that an
   earlier updateSession has written into it; an update of it that names only
   active succeeds and must keep both. *)
C6_Witness ==
    /\ initialized
    /\ Cardinality(DOMAIN table) = 2
    /\ \E k \in DOMAIN table :
          /\ <<"tokens", "tokA">> \in table[k].data
          /\ <<"identity", "u2">> \in table[k].data
          /\ table[k].identity = "u1"
          /\ updateSession(table, "u1", k, [active |-> "false"], NoTtl).outcome = "ok"

(* C7: on an initialized store getSession(identity, sessionId) returns null,
   not an error, when the id was never stored, when it is stored under
   another identity, and after removeSession(identity, sessionId). *)
C7_AbsentIsNull ==
    initialized =>
        \A k \in KeyArgs :
            /\ ~Stored(table, k[1], k[2]) => getSession(table, k[1], k[2]) = Null
            /\ getSession(removeSession(table, k[1], k[2]).db, k[1], k[2]) = Null

(* One id is stored and the other is not: getSession returns null for the
   absent id, for the stored id under the other identity, and for the stored
   id once removeSession has removed it. *)
C7_Witness ==
    /\ initialized
    /\ Cardinality(DOMAIN table) = 1
    /\ \E k \in Keys : k[2] \notin DOMAIN table /\ getSession(table, k[1], k[2]) = Null
    /\ \E k \in Keys : k[2] \in DOMAIN table /\ getSession(table, k[1], k[2]) = Null
    /\ \E k \in Keys :
          /\ IsObject(getSession(table, k[1], k[2]))
          /\ getSession(removeSession(table, k[1], k[2]).db, k[1], k[2]) = Null

(* C8: removeSession never throws on an initialized store; after one call and
   after two, getSession returns null and the id is not listed for the
   identity; the second call leaves the store as the first left it. *)
C8_RemoveIdempotent ==
    initialized =>
        \A k \in KeyArgs :
            LET once == removeSession(table, k[1], k[2])
                twice == removeSession(once.db, k[1], k[2])
            IN  /\ once.outcome = "ok"
                /\ twice.outcome = "ok"
                /\ getSession(once.db, k[1], k[2]) = Null
                /\ getSession(twice.db, k[1], k[2]) = Null
                /\ k[2] \notin getIdentityMcpSessions(once.db, k[1])
                /\ k[2] \notin getIdentityMcpSessions(twice.db, k[1])
                /\ twice.db = once.db

(* One record is stored, which a first removeSession removes, and another
   pair is absent, whose removal is the case of a session that does not
   exist. *)
C8_Witness ==
    /\ initialized
    /\ \E k \in Keys :
          /\ Stored(table, k[1], k[2])
          /\ removeSession(table, k[1], k[2]).db # table
    /\ \E k \in Keys : ~Stored(table, k[1], k[2])

(* C9, as stated: getIdentitySessionsData(identity) never returns a record
   whose active field is false. *)
C9_ListingHidesInactive ==
    initialized =>
        \A i \in Identities :
            \A r \in getIdentitySessionsData(table, i) : Get(r, "active") # "false"

(* C9, amended: getIdentitySessionsData(identity) returns exactly the
   records stored under the identity, whatever their active field: a record
   with active = false is listed for as long as it is in the store. *)
C9_ListingReturnsAllStored ==
    initialized =>
        \A i \in Identities :
            getIdentitySessionsData(table, i) =
                { getSession(table, i, k) : k \in { j \in DOMAIN table : table[j].identity = i } }

(* The listing of an identity returns a record with active = false beside
   one with active = true. *)
C9_Witness ==
    /\ initialized
    /\ \E i \in Identities :
          /\ \E r \in getIdentitySessionsData(table, i) : Get(r, "active") = "false"
          /\ \E r \in getIdentitySessionsData(table, i) : Get(r, "active") = "true"

(* C10: every record returned by getSession(i, s) or listed by
   getIdentitySessionsData(i) has identity = i, and getSession(i, s) returns
   the sessionId s, also after updateSession calls that name sessionId or
   identity. *)
C10_KeysImmutable ==
    initialized =>
        /\ \A k \in Keys :
              Stored(table, k[1], k[2]) =>
                  /\ Get(getSession(table, k[1], k[2]), "identity") = k[1]
                  /\ Get(getSession(table, k[1], k[2]), "sessionId") = k[2]
        /\ \A i \in Identities :
              \A r \in getIdentitySessionsData(table, i) : Get(r, "identity") = i

(* The label of a session record. *)
LabelOf(session) == sanitizeServerLabel(Chars(session.serverName))

ActiveLoaded == { r \in loaded : r.active = "true" }

(* C11: when getMcpServerConfig(identity) has returned, every session of the
   identity that was stored with active = false has been removed from the
   storage and the mapping has no key but the labels of the active sessions;
   with only inactive sessions the mapping is empty. *)
C11_InactivePruned ==
    callPc = "config" =>
        /\ \A r \in loaded :
              r.active = "false" => ~Stored(table, ConfigIdentity, r.sessionId)
        /\ DOMAIN mcpConfig \subseteq { LabelOf(r) : r \in ActiveLoaded }
        /\ (ActiveLoaded = {}) => (DOMAIN mcpConfig = {})

(* The identity had two sessions, both inactive: the call has returned the
   empty mapping and the storage is empty. *)
C11_Witness ==
    /\ callPc = "config"
    /\ Cardinality(loaded) = 2
    /\ ActiveLoaded = {}
    /\ DOMAIN mcpConfig = {}
    /\ DOMAIN table = {}

(* C12 as it was stated: the mapping returned has, for every active session,
   an entry under sanitizeServerLabel(serverName) that carries the
   transportType and serverUrl of that session, and no other entries;
   initialize() and getValidTokens() have each been called once per active
   session (and not for an inactive one). *)
C12_EntryPerActiveSession ==
    callPc = "config" =>
        /\ \A r \in ActiveLoaded :
              /\ LabelOf(r) \in DOMAIN mcpConfig
              /\ mcpConfig[LabelOf(r)] =
                    [transport |-> r.transportType, url |-> r.serverUrl]
        /\ DOMAIN mcpConfig = { LabelOf(r) : r \in ActiveLoaded }
        /\ \A r \in loaded :
              /\ initializeCalls[r.sessionId] = (IF r.active = "true" THEN 1 ELSE 0)
              /\ getValidTokensCalls[r.sessionId] = (IF r.active = "true" THEN 1 ELSE 0)

(* C13 as it was stated: the mapping returned has one entry per active
   session, whatever the server names. *)
C13_NoOverwrite ==
    callPc = "config" => Cardinality(DOMAIN mcpConfig) = Cardinality(ActiveLoaded)

(* The two sessions of scenario A, under either id. *)
ScenarioA ==
    /\ Cardinality(loaded) = 2
    /\ { r.serverName : r \in ActiveLoaded } = {"My Server", "my-server"}

(* C14: with two active sessions of the identity named "My Server" and
   "my-server", the mapping returned has two distinct keys, one entry per
   session. *)
C14_ScenarioADistinctKeys ==
    (callPc = "config" /\ ScenarioA) =>
        /\ Cardinality(DOMAIN mcpConfig) = 2
        /\ \A r \in loaded : mcpConfig[LabelOf(r)] = [transport |-> r.transportType,
                                                       url |-> r.serverUrl]

(* Scenario A has returned the keys "my_server" and "my-server". *)
C14_Witness ==
    /\ callPc = "config"
    /\ ScenarioA
    /\ DOMAIN mcpConfig = { <<"m", "y", "_", "s", "e", "r", "v", "e", "r">>,
                            <<"m", "y", "-", "s", "e", "r", "v", "e", "r">> }

(* The characters of a label: lowercase letters, digits, '-' and '_'. *)
IsLabelChar(c) == IsLower(c) \/ c \in Digits \/ c = "-" \/ c = "_"

(* C15: for every input string, the empty string and the strings that start
   with a digit, '-' or '_' included, sanitizeServerLabel returns a
   non-empty label that starts with a letter and contains only lowercase
   letters, digits, '-' and '_'. *)
C15_LabelWellFormed ==
    labelPc = "return" =>
        /\ Len(label) > 0
        /\ IsLower(label[1])
        /\ \A i \in 1..Len(label) : IsLabelChar(label[i])

(* The empty string was given and the label is "s_". *)
C15_Witness ==
    /\ labelPc = "return"
    /\ name = << >>
    /\ label = <<"s", "_">>

(* C16 as it was stated: the label never contains two adjacent underscores
   and never a character other than a lowercase letter, a digit or '_'. *)
C16_OnlyAlphaNumericAndUnderscore ==
    labelPc = "return" =>
        /\ \A i \in 1..Len(label) :
              IsLower(label[i]) \/ label[i] \in Digits \/ label[i] = "_"
        /\ \A i \in 1..(Len(label) - 1) : ~(label[i] = "_" /\ label[i + 1] = "_")

IsWordChar(c) == IsLetter(c) \/ c \in Digits \/ c = "-"
NotUnderscore(c) == c # "_"

(* C16: the label is the name lowercased with every character other than a
   letter, a digit, '-' or '_' replaced by '_' and every run of underscores
   collapsed to one, prefixed with "s_" when that does not start with a
   letter.  So the letters, digits and '-' of the name are kept, in order and
   lowercased, behind the "s" of the prefix if there is one; every other
   character of the label is '_'; and two adjacent underscores occur only
   where the prefix "s_" meets a leading underscore. *)
C16_LabelOfName ==
    labelPc = "return" =>
        LET prefixed == Len(name) = 0 \/ ~IsLetter(name[1])
        IN  /\ \A i \in 1..Len(label) : IsLabelChar(label[i])
            /\ SelectSeq(label, NotUnderscore) =
                  (IF prefixed THEN <<"s">> ELSE << >>)
                  \o toLowerCase(SelectSeq(name, IsWordChar))
            /\ \A i \in 1..(Len(label) - 1) :
                  (label[i] = "_" /\ label[i + 1] = "_") => (prefixed /\ i = 2)

(* A name of a '-' and a run of two spaces was given: the '-' is kept behind
   the prefix and the run is one underscore. *)
C16_Witness ==
    /\ labelPc = "return"
    /\ name = <<"-", " ", " ">>
    /\ label = <<"s", "_", "-", "_">>

(* The connect attempts in flight. *)
Attempting == { c \in Callers : attempts[c] # NoAttempt }

(* The transitions of one lifecycle, the refresh failure that ends a
   connected session, and disconnect(). *)
LifecycleEdges ==
    { <<"DISCONNECTED", "CONNECTING">>, <<"FAILED", "CONNECTING">>,
      <<"CONNECTING", "AUTHENTICATING">>, <<"CONNECTING", "AUTHENTICATED">>,
      <<"AUTHENTICATING", "AUTHENTICATED">>, <<"AUTHENTICATED", "DISCOVERING">>,
      <<"DISCOVERING", "CONNECTED">>, <<"CONNECTED", "FAILED">> }
    \cup { <<s, "FAILED">> : s \in {"CONNECTING", "AUTHENTICATING", "DISCOVERING"} }
    \cup { <<s, "DISCONNECTED">> : s \in ConnectionStates }

(* C17: whatever connect() calls are issued while others are pending, at
   most one connect attempt is in flight, the state of the session is the
   position of that attempt, and every change of the state is a transition
   of one lifecycle (or a disconnect): a connect() issued while an attempt is
   in flight starts no second lifecycle. *)
C17_OneLifecycle ==
    /\ [](/\ Cardinality(Attempting) <= 1
          /\ \A c \in Attempting : attempts[c] = state
          /\ (state \in {"AUTHENTICATING", "AUTHENTICATED", "DISCOVERING"})
                => Attempting # {})
    /\ [][state' # state => <<state, state'>> \in LifecycleEdges]_vars

(* Two callers await their connect() and one attempt is in discovery. *)
C17_Witness ==
    /\ \A c \in Callers : calls[c] = "pending"
    /\ Cardinality(Callers) >= 2
    /\ Cardinality(Attempting) = 1
    /\ state = "DISCOVERING"

(* C18: in AUTHENTICATING, finishAuth with a code that is refused fails with
   InvalidGrant and leaves the client in FAILED with no attempt in flight;
   and the client leaves FAILED only by a connect() or a disconnect() issued
   from outside, never by a step of its own. *)
C18_BadCodeFails ==
    /\ [](state = "AUTHENTICATING" =>
            LET res == finishAuth(state, attempts, "bad-code")
            IN  /\ res.outcome = "InvalidGrant"
                /\ res.state = "FAILED"
                /\ \A c \in Callers : res.attempts[c] = NoAttempt)
    /\ [][(state = "FAILED" /\ state' # "FAILED") =>
            ((\E c \in Callers : DoConnect(c)) \/ DoDisconnect)]_vars

(* finishAuth("bad-code") has been refused: the client is in FAILED with
   the error InvalidGrant on its record and nothing in flight. *)
C18_Witness ==
    /\ state = "FAILED"
    /\ lastError = "InvalidGrant"
    /\ Attempting = {}

(* C19: in DISCONNECTED, callTool fails with NotConnected, sends nothing to
   the remote endpoint and leaves the state DISCONNECTED. *)
C19_CallToolNotConnected ==
    state = "DISCONNECTED" =>
        LET res == callTool(state, sent)
        IN  /\ res.outcome = "NotConnected"
            /\ res.sent = sent
            /\ res.state = "DISCONNECTED"

(* A session that was connected and called a tool has been disconnected,
   and callTool fails on it. *)
C19_Witness ==
    /\ state = "DISCONNECTED"
    /\ sent > 0 /\ sent < MaxSent
    /\ callTool(state, sent).outcome = "NotConnected"

(* C20: when the aggregator's connect() has returned, every active session
   of the identity has run to its own outcome, CONNECTED or FAILED, whatever
   became of the others; a session whose connect failed is recorded as
   FAILED and getClients() returns exactly the sessions that connected.
   While the call runs, a failure of one session leaves the task of every
   other session free to go on. *)
C20_FailureIsolated ==
    /\ callPc = "clients" =>
          /\ \A r \in ActiveLoaded :
                /\ r.sessionId \in DOMAIN clients
                /\ clients[r.sessionId] \in {"CONNECTED", "FAILED"}
                /\ tasks[r.sessionId] = "failed" <=> clients[r.sessionId] = "FAILED"
          /\ getClients(clients) = { s \in DOMAIN tasks : tasks[s] = "connected" }
          /\ \A s \in getClients(clients) : tasks[s] # "failed"
    /\ callPc = "connecting" =>
          \A s \in DOMAIN tasks :
              tasks[s] = "connecting" =>
                  ENABLED (AggregatorConnected(s) \/ AggregatorFailed(s))

(* connect() has returned with one session FAILED and the other CONNECTED:
   getClients() is the connected one. *)
C20_Witness ==
    /\ callPc = "clients"
    /\ \E s \in DOMAIN clients : clients[s] = "FAILED"
    /\ \E s \in DOMAIN clients : getClients(clients) = {s}

(* The position of an event in the publication order. *)
PublishedAt(e) == CHOOSE i \in 1..Len(published) : published[i] = e

InSeq(e, seq) == \E i \in 1..Len(seq) : seq[i] = e

(* C21: for each session, every subscriber receives the session's events in
   the order they were published: of two events of one session on a
   subscriber's stream, the one received first was published first.
   Nothing is required of events of different sessions. *)
C21_PerSessionOrder ==
    \A sub \in Subscribers :
        \A i, j \in 1..Len(delivered[sub]) :
            (i < j /\ delivered[sub][i].sessionId = delivered[sub][j].sessionId)
                => /\ InSeq(delivered[sub][i], published)
                   /\ InSeq(delivered[sub][j], published)
                   /\ PublishedAt(delivered[sub][i]) < PublishedAt(delivered[sub][j])

(* A subscriber has received two events of one session, and has received
   an event of another session ahead of one published before it. *)
C21_Witness ==
    \E sub \in Subscribers :
        /\ \E i, j \in 1..Len(delivered[sub]) :
              i < j /\ delivered[sub][i].sessionId = delivered[sub][j].sessionId
        /\ \E i, j \in 1..Len(delivered[sub]) :
              /\ i < j
              /\ PublishedAt(delivered[sub][i]) > PublishedAt(delivered[sub][j])

Occurrences(e, seq) == Cardinality({i \in 1..Len(seq) : seq[i] = e})

(* C22: there is no replay.  While a subscriber is subscribed, an event
   published before it subscribed, or for a session it is not entitled to,
   is neither received nor on its way; every event published since for a
   session it is entitled to is received or on its way, once; and the n-th
   of these events is received unless the subscriber leaves. *)
C22_NoReplay ==
    /\ [](\A sub \in Subscribers :
            subscription[sub] # NotSubscribed =>
                \A i \in 1..Len(published) :
                    Occurrences(published[i], delivered[sub])
                      + Occurrences(published[i], pending[sub])
                    = IF /\ i > subscription[sub].since
                         /\ Entitled(sub, published[i].sessionId)
                        THEN 1 ELSE 0)
    /\ \A sub \in Subscribers : \A n \in 1..MaxPublished :
          (Len(delivered[sub]) + Len(pending[sub]) >= n)
              ~> (Len(delivered[sub]) >= n \/ subscription[sub] = NotSubscribed)

(* A subscriber that subscribed after an event of its identity was
   published has received a later one. *)
C22_Witness ==
    \E sub \in Subscribers :
        /\ subscription[sub] # NotSubscribed
        /\ subscription[sub].since > 0
        /\ Entitled(sub, published[1].sessionId)
        /\ delivered[sub] # << >>

(* C23: a transport error during connect() is surfaced to the callers
   awaiting the attempt and does not move the state machine: the step that
   hands a caller TransportError leaves the state as it was and out of
   FAILED, with no attempt in flight; and in every state in which a caller
   holds that error of an attempt that has not been retried, a connect()
   starts a new attempt. *)
C23_TransportErrorKeepsState ==
    /\ [][(\E c \in Callers : calls[c] = "pending" /\ calls'[c] = "TransportError")
            => (state' = state /\ state' # "FAILED" /\ ~InFlight(attempts'))]_vars
    /\ [](\A c \in Callers :
            (calls[c] = "TransportError" /\ state = "CONNECTING" /\ ~InFlight(attempts))
                => /\ connect(state, attempts, c).outcome = "started"
                   /\ ENABLED DoConnect(c))

(* A caller was handed TransportError, retried, and the retry has come to
   CONNECTED. *)
C23_Witness ==
    /\ \E c \in Callers : calls[c] = "TransportError"
    /\ \E c \in Callers : calls[c] = "idle"
    /\ state = "CONNECTED"

(* C24: a disconnect() issued while a callTool is in flight settles the
   call, and on a disconnected session no call is in flight and no
   SessionRecord is in storage. *)
C24_DisconnectSettlesCall ==
    /\ [](state = "DISCONNECTED" =>
            /\ toolCall # "inFlight"
            /\ getSession(table, ClientSession.identity, ClientSession.sessionId) = Null)
    /\ [][(toolCall = "inFlight" /\ DoDisconnect)
            => /\ toolCall' \in {"resolved", "rejected"}
               /\ getSession(table', ClientSession.identity, ClientSession.sessionId) = Null]_vars

(* The session was disconnected with a call in flight, which was rejected. *)
C24_Witness ==
    /\ state = "DISCONNECTED"
    /\ toolCall = "rejected"
    /\ sent > 0

(* C25: with an access token on the record that has expired and a refresh
   token the server honours, getValidTokens() sends one refresh request,
   returns tokens other than the expired ones and leaves them on the
   SessionRecord; a second call on what the first left returns the same
   tokens and sends no request. *)
C25_RefreshOnceThenCached ==
    (StoredTokens(table) # Undefined /\ expired) =>
        LET first == getValidTokens(table, expired, refreshes, TRUE)
            second == getValidTokens(first.db, first.expired, first.refreshes, TRUE)
        IN  /\ first.outcome = "ok"
            /\ first.refreshes = refreshes + 1
            /\ first.tokens # StoredTokens(table)
            /\ StoredTokens(first.db) = first.tokens
            /\ second.outcome = "ok"
            /\ second.tokens = first.tokens
            /\ second.refreshes = first.refreshes
            /\ second.db = first.db

(* The stored access token has expired on a connected session. *)
C25_Witness ==
    /\ state = "CONNECTED"
    /\ StoredTokens(table) # Undefined
    /\ expired
    /\ refreshes < MaxRefreshes

(* C26: a disconnect() removes the SessionRecord: right after it
   getSession returns null, the id is not listed for the identity, no
   record of the id is listed, and a createSession with the same sessionId
   succeeds. *)
C26_DisconnectRemovesRecord ==
    [][DoDisconnect =>
        /\ getSession(table', ClientSession.identity, ClientSession.sessionId) = Null
        /\ ClientSession.sessionId \notin getIdentityMcpSessions(table', ClientSession.identity)
        /\ getIdentitySessionsData(table', ClientSession.identity) = {}
        /\ createSession(table', ClientSession, MaxTtl).outcome = "ok"]_vars

(* The session is disconnected after its record had been created and the
   client had been connected with tokens. *)
C26_Witness ==
    /\ state = "DISCONNECTED"
    /\ refreshes > 0
    /\ toolCall = "resolved"
    /\ table = << >>

IsResult(e) == e.type = "TOOL_CALL_RESULT"

(* The tool call id has a TOOL_CALL_START with a name among the first n
   events of the output, and the name of the latest one. *)
Starts(id, n) ==
    { j \in 1..n : /\ output[j].type = "TOOL_CALL_START"
                   /\ output[j].toolCallId = id
                   /\ output[j].toolCallName # "" }
StartedName(id, n) ==
    output[CHOOSE j \in Starts(id, n) : \A k \in Starts(id, n) : k <= j].toolCallName

(* The TOOL_CALL_END events among the first n events of the output that
   end a call of id started under a name that begins with toolPrefix. *)
PrefixedEnds(id, n) ==
    { k \in 1..n : /\ output[k].type = "TOOL_CALL_END"
                   /\ output[k].toolCallId = id
                   /\ Starts(id, k) # {}
                   /\ startsWith(ToolChars(StartedName(id, k)), ToolChars(toolPrefix)) }
ResultsOf(id, n) == { k \in 1..n : IsResult(output[k]) /\ output[k].toolCallId = id }
Pending(id) == { i \in 1..Len(executing) : executing[i].toolCallId = id }

(* C27: in every prefix of the output, the TOOL_CALL_RESULT events of a
   tool call id are at most as many as the TOOL_CALL_END events before them
   that end a call started under a prefixed name; while the output is open
   each such end has its result in the output or its execution pending; and
   when the output completes each has exactly one result.  A call started
   under a name without the prefix, or never started, has no such end and
   so no result. *)
C27_OneResultPerInterceptedEnd ==
    \A id \in ToolCallIds :
        /\ \A n \in 0..Len(output) :
              Cardinality(ResultsOf(id, n)) <= Cardinality(PrefixedEnds(id, n))
        /\ runStatus \in {"running", "draining"} =>
              Cardinality(ResultsOf(id, Len(output))) + Cardinality(Pending(id))
                = Cardinality(PrefixedEnds(id, Len(output)))
        /\ runStatus = "complete" =>
              Cardinality(ResultsOf(id, Len(output)))
                = Cardinality(PrefixedEnds(id, Len(output)))

(* The output has completed; the call c1, started under a registered name
   without the prefix, was ended and has no result; the call c2 has one. *)
C27_Witness ==
    /\ runStatus = "complete"
    /\ \E k \in 1..Len(output) : output[k] = ToolCallStart("c1", "mcp_a")
    /\ \E k \in 1..Len(output) : output[k] = ToolCallEnd("c1")
    /\ ResultsOf("c1", Len(output)) = {}
    /\ Cardinality(ResultsOf("c2", Len(output))) = 1

(* C28: the output without its TOOL_CALL_RESULT events is the sequence of
   the events received from the agent: each once, unchanged, in order. *)
C28_PassThrough ==
    SelectSeq(output, LAMBDA e : ~IsResult(e)) = received

(* A result was emitted between two events of the agent. *)
C28_Witness ==
    \E k \in 1..Len(output) : IsResult(output[k]) /\ k < Len(output) /\ k > 2

ErrorStrings ==
    {"Error: Tool not found", "Error: Tool has no handler", "Error executing tool"}

(* C29: executing an intercepted tool never fails the output: the output
   is never failed by a rejected promise, and whatever the handler does the
   promise of every pending execution resolves, with an error string when
   the tool is not found, has no handler, or the handler throws. *)
C29_ExecutionNeverFails ==
    /\ runStatus # "rejected"
    /\ \A i \in 1..Len(executing) : \A behaviour \in Behaviours :
          LET res == executeTool(executing[i].toolName, executing[i].args, behaviour)
          IN  /\ res.outcome = "resolved"
              /\ (behaviour # "returns" \/ Find(executing[i].toolName).name # executing[i].toolName
                    \/ ~Find(executing[i].toolName).handler)
                    => res.content \in ErrorStrings

RECURSIVE DeltasBefore(_, _)
(* The deltas received for the tool call id before the k-th event of the
   run, concatenated in arrival order. *)
DeltasBefore(id, k) ==
    IF k <= 1 THEN << >>
    ELSE DeltasBefore(id, k - 1)
         \o (IF received[k - 1].type = "TOOL_CALL_ARGS" /\ received[k - 1].toolCallId = id
             THEN received[k - 1].delta ELSE << >>)

(* C30: the arguments of every execution started at a TOOL_CALL_END are the
   JSON value of the concatenation of the deltas received for its id
   earlier in the run, and the empty object when there was none or the
   concatenation does not parse. *)
C30_ArgsAreConcatenatedDeltas ==
    \A i \in 1..Len(executing) :
        LET text == DeltasBefore(executing[i].toolCallId, executing[i].at)
        IN  executing[i].args =
                IF text # << >> /\ JSONparseText(text).ok
                THEN JSONparseText(text).value
                ELSE EmptyObject

(* An execution is pending whose arguments are the number 11, received as
   two deltas. *)
C30_Witness ==
    \E i \in 1..Len(executing) :
        /\ executing[i].args = Number(11)
        /\ Find(executing[i].toolName).handler
        /\ received[executing[i].at - 1] = ToolCallArgs(executing[i].toolCallId, <<"1">>)

(* C31: every listTools() call of an adapter method was made on a client
   whose isConnected() had just returned true, and every action or tool
   collected was made of the tools of a client so called. *)
C31_OnlyConnectedClients ==
    /\ \A i \in 1..Len(listToolsCalls) : listToolsCalls[i].isConnected
    /\ \A j \in 1..Len(adapterResult) :
          \E i \in 1..Len(listToolsCalls) :
              /\ listToolsCalls[i].client = adapterResult[j].client
              /\ listToolsCalls[i].isConnected

(* A method has returned the tools of k2 and none of k1, which was not
   connected when its turn came; k2 has disconnected since. *)
C31_Witness ==
    /\ adapterPc = "returned"
    /\ adapterResult # << >>
    /\ \A j \in 1..Len(adapterResult) : adapterResult[j].client = "k2"
    /\ ~connected["k2"]

(* The data arguments that name no field or one: the expiry a call stores
   does not depend on the fields it merges. *)
OneField == { d \in Partials : Cardinality(DOMAIN d) <= 1 }

(* The instants of the sweeps that can follow: now and the seconds after it. *)
LaterInstants == { now + n * MsPerSec : n \in 0..(MaxTicks + MaxTtl + 1) }

(* C32, as stated: after a successful updateSession the expiry of the record
   is now + ttlSeconds whenever a ttlSeconds argument was provided, and
   absent when it was omitted. *)
C32_ExpiryFromTtlArgument ==
    initialized =>
        \A k \in Keys, data \in Partials, ttl \in TtlArgs :
            Stored(table, k[1], k[2]) =>
                LET res == updateSession(table, k[1], k[2], data, ttl)
                IN  /\ res.outcome = "ok"
                    /\ res.db[k[2]].expiresAt =
                          IF ttl = NoTtl THEN SqlNull ELSE now + ttl * MsPerSec

(* C32, amended: after a successful updateSession the expiry of the record
   is determined by that call's ttlSeconds alone, whatever expiry the record
   had: now + ttlSeconds when it is provided and not zero, none when it is
   omitted or zero; a record updated without a TTL is removed by no later
   cleanupExpiredSessions, also when the TTL it was created with has
   elapsed. *)
C32_ExpiryFromNonZeroTtl ==
    initialized =>
        \A k \in Keys, data \in OneField, ttl \in TtlArgs :
            Stored(table, k[1], k[2]) =>
                \A res \in {updateSession(table, k[1], k[2], data, ttl)} :
                    /\ res.outcome = "ok"
                    /\ res.db[k[2]].expiresAt =
                          IF ttl = NoTtl \/ ttl = 0 THEN SqlNull ELSE now + ttl * MsPerSec
                    /\ ttl = NoTtl =>
                          \A t \in LaterInstants :
                              \A swept \in {DeleteExpired(res.db, t)} :
                                  k[2] \in DOMAIN swept /\ swept[k[2]] = res.db[k[2]]

(* A record was stored with a TTL that has elapsed: the sweep would remove
   it now, and after an update without a TTL the sweep keeps it. *)
C32_Witness ==
    /\ initialized
    /\ \E k \in DOMAIN table :
          /\ ElapsedStrictly(table, k)
          /\ k \notin DOMAIN cleanupExpiredSessions(table).db
          /\ LET res == updateSession(table, table[k].identity, k, [active |-> "false"], NoTtl)
             IN  /\ res.outcome = "ok"
                 /\ k \in DOMAIN cleanupExpiredSessions(res.db).db

(* C33: for every stored session s of identity B and every other identity
   A: getSession(A, s) is null, updateSession(A, s, ...) fails with
   NotFound and changes nothing, removeSession(A, s) leaves every row as it
   is, s is not among the ids listed for A, and the two listings of A are
   what they would be if s were not stored. *)
C33_IdentityIsolation ==
    initialized =>
        \A s \in DOMAIN table : \A A \in Identities \ {table[s].identity} :
            /\ getSession(table, A, s) = Null
            /\ \A data \in Partials, ttl \in TtlArgs :
                  updateSession(table, A, s, data, ttl) = Throws(table, "NotFound")
            /\ removeSession(table, A, s) = Returns(table)
            /\ s \notin getIdentityMcpSessions(table, A)
            /\ LET without == Delete(table, s, table[s].identity)
               IN  /\ getIdentityMcpSessions(table, A) = getIdentityMcpSessions(without, A)
                   /\ getIdentitySessionsData(table, A) = getIdentitySessionsData(without, A)

(* Each of the two identities owns one session, so each of them is the
   other identity of a stored session, with a listing of its own. *)
C33_Witness ==
    /\ initialized
    /\ \E s, t \in DOMAIN table :
          /\ table[s].identity = "u1"
          /\ table[t].identity = "u2"
          /\ getIdentityMcpSessions(table, "u1") = {s}
          /\ getIdentityMcpSessions(table, "u2") = {t}
          /\ getSession(table, "u2", s) = Null
          /\ getSession(table, "u1", s) # Null

(* Both calls have completed and the record was not removed. *)
BothCompleted ==
    /\ \A w \in Updaters : updateCalls[w].pc = "done"
    /\ ~removeDone

(* The call whose UPDATE ran last. *)
LastWriter == writes[Len(writes)]

(* C34, as stated: when two overlapping updateSession calls that set
   disjoint fields have both completed, the stored record carries the new
   values of both. *)
C34_BothUpdatesTakeEffect ==
    (/\ BothCompleted
     /\ DOMAIN updateCalls["w1"].data \cap DOMAIN updateCalls["w2"].data = {})
        => \A w \in Updaters : \A f \in DOMAIN updateCalls[w].data :
              Get(getSession(table, OverlapIdentity, OverlapSessionId), f)
                  = updateCalls[w].data[f]

(* C34, amended: overlapping updateSession calls are last-write-wins on the
   whole record.  When both have completed, the row is the record that the
   call whose write came last had read, merged with that call's fields, with
   that call's expiry; the fields of the other call are in it only when its
   write preceded that read. *)
C34_LastWriteWins ==
    BothCompleted =>
        /\ Stored(table, OverlapIdentity, OverlapSessionId)
        /\ table[OverlapSessionId].data =
              JSONstringify(updatedSession(updateCalls[LastWriter].currentSession,
                                           updateCalls[LastWriter].data))
        /\ table[OverlapSessionId].expiresAt = ExpiresAt(updateCalls[LastWriter].ttl)
        /\ \A f \in DOMAIN updateCalls[LastWriter].data :
              Get(getSession(table, OverlapIdentity, OverlapSessionId), f)
                  = updateCalls[LastWriter].data[f]

(* Both calls read the record before either wrote; w1 set tokens, w2 set
   active, and the stored record has lost the tokens of w1. *)
C34_Witness ==
    /\ BothCompleted
    /\ writes = <<"w1", "w2">>
    /\ updateCalls["w1"].data = [tokens |-> "tokA"]
    /\ updateCalls["w2"].data = [active |-> "false"]
    /\ updateCalls["w1"].currentSession = updateCalls["w2"].currentSession
    /\ Get(getSession(table, OverlapIdentity, OverlapSessionId), "tokens") = Undefined
    /\ Get(getSession(table, OverlapIdentity, OverlapSessionId), "active") = "false"

(* C35: once removeSession has completed, getSession returns null for the
   session and the row is not stored, whatever updateSession calls had read
   the record before the removal and write after it. *)
C35_UpdateNeverRecreates ==
    removeDone =>
        /\ getSession(table, OverlapIdentity, OverlapSessionId) = Null
        /\ OverlapSessionId \notin DOMAIN table
        /\ \A w \in Updaters :
              updateCalls[w].pc = "read" =>
                  getSession(updateSessionWrites(table, OverlapIdentity, OverlapSessionId,
                                                 updateCalls[w].currentSession,
                                                 updateCalls[w].data,
                                                 updateCalls[w].ttl).db,
                             OverlapIdentity, OverlapSessionId) = Null

(* A call read the record, the record was removed, and the call then ran
   its UPDATE. *)
C35_Witness ==
    /\ writes = <<"remove", "w1">>
    /\ updateCalls["w1"].pc = "done"
    /\ updateCalls["w1"].currentSession # Null
    /\ updateCalls["w1"].data = [active |-> "true"]

(* C36: with another run() started on the instance at any moment of a run,
   every TOOL_CALL_END of a call started under a prefixed name still has its
   execution pending or its result in the output, and every execution is
   made under the name of the call's TOOL_CALL_START with the arguments
   accumulated from its TOOL_CALL_ARGS. *)
C36_RunsDoNotDisturb ==
    /\ \A id \in ToolCallIds :
          runStatus \in {"running", "draining", "complete"} =>
              \A k \in PrefixedEnds(id, Len(output)) :
                  \/ \E i \in Pending(id) : TRUE
                  \/ \E j \in ResultsOf(id, Len(output)) : j > k
    /\ \A i \in 1..Len(executing) :
          LET text == DeltasBefore(executing[i].toolCallId, executing[i].at)
          IN  executing[i].args =
                  IF text # << >> /\ JSONparseText(text).ok
                  THEN JSONparseText(text).value
                  ELSE EmptyObject

(* The names of the registered actions, which run() adds to input.tools. *)
RegisteredNames == { actions[i].name : i \in 1..Len(actions) }

(* C37: when the output has completed, every TOOL_CALL_END of a call started
   under the name of a registered action is followed by a TOOL_CALL_RESULT
   of that call. *)
C37_RegisteredActionsExecuted ==
    runStatus = "complete" =>
        \A id \in ToolCallIds : \A k \in 1..Len(output) :
            (/\ output[k].type = "TOOL_CALL_END"
             /\ output[k].toolCallId = id
             /\ Starts(id, k) # {}
             /\ StartedName(id, k) \in RegisteredNames)
                => \E j \in ResultsOf(id, Len(output)) : j > k

(* C38: in what getActions() without options.prefix has returned, two
   actions of the same name come from the same serverId and the same tool. *)
C38_ActionNamesUnique ==
    (/\ adapterPc = "returned"
     /\ adapterCall.method = "getActions"
     /\ ~adapterCall.prefix.present)
        => \A i, j \in 1..Len(adapterResult) :
              adapterResult[i].name = adapterResult[j].name =>
                  /\ adapterResult[i].serverId = adapterResult[j].serverId
                  /\ adapterResult[i].tool = adapterResult[j].tool

(* C39: no event of the agent is received while an execution is pending,
   and every TOOL_CALL_RESULT in the output comes right after the
   TOOL_CALL_END of its call. *)
C39_ResultBeforeLaterEvents ==
    /\ \A i \in 1..Len(executing) : executing[i].at = Len(received)
    /\ \A j \in 1..Len(output) :
          IsResult(output[j]) =>
              /\ j > 1
              /\ output[j - 1].type = "TOOL_CALL_END"
              /\ output[j - 1].toolCallId = output[j].toolCallId

(* C40: createSession and updateSession called with ttlSeconds = 0 store the
   record with no expiry, as they do when ttlSeconds is omitted, and no later
   cleanupExpiredSessions removes it. *)
C40_ZeroTtlIsNoTtl ==
    initialized =>
        /\ \A session \in SessionDatas :
              \A res \in {createSession(table, session, 0)} :
                  /\ res = createSession(table, session, NoTtl)
                  /\ res.outcome = "ok" =>
                        /\ res.db[session.sessionId].expiresAt = SqlNull
                        /\ \A t \in LaterInstants :
                              session.sessionId \in DOMAIN DeleteExpired(res.db, t)
        /\ \A k \in Keys, data \in OneField :
              \A res \in {updateSession(table, k[1], k[2], data, 0)} :
                  /\ res = updateSession(table, k[1], k[2], data, NoTtl)
                  /\ res.outcome = "ok" =>
                        /\ res.db[k[2]].expiresAt = SqlNull
                        /\ \A t \in LaterInstants :
                              k[2] \in DOMAIN DeleteExpired(res.db, t)

(* Time has passed; a record with an expiry is stored, which an update with
   ttlSeconds = 0 accepts, and another id is free, which a createSession
   with ttlSeconds = 0 accepts. *)
C40_Witness ==
    /\ initialized
    /\ now > 0
    /\ \E k \in DOMAIN table :
          /\ table[k].expiresAt # SqlNull
          /\ updateSession(table, table[k].identity, k, << >>, 0).outcome = "ok"
    /\ \E session \in SessionDatas : createSession(table, session, 0).outcome = "ok"


====
